---- MODULE Spec2Model ----
(***************************************************************************)
(* Model of the "load older messages" engine of st-chat-render-optimizer   *)
(* (src/modules/chat-render-optimizer.js): the three trigger sources, the  *)
(* job-busy flag, the frame-batched insertion loop and the scroll offset   *)
(* compensation.                                                           *)
(***************************************************************************)
EXTENDS Integers, Sequences, FiniteSets, TLC

(* ---------------------------- bounds ---------------------------------- *)
\* number of entries of the conversation log (ctx.chat.length)
Total == 5
\* the clock (Date.now()) runs from StartTime to StartTime + MaxTime
MaxTime == 2
\* largest scroll offset the user scrolls to by hand
MaxScroll == 2
\* most 500 ms retries of one install function pending at a time
MaxTimers == 2

(* ----------------------- program constants ---------------------------- *)
\* perFrame argument passed by loadMoreChunked
PerFrame == 3
\* minimum downward displacement of a touch-drag
TouchDistance == 18

\* values the settings take in the model (all inside their clamped ranges)
BatchSizes == {2, 4}
CooldownValues == {0, 2}
ThresholdValues == {1}
\* initialRenderCount; it takes effect at the next full load only, so the
\* window on screen need not have this size
InitialCounts == {3}
\* Date.now() at load time is far larger than any cooldown, _lastAutoLoadTs is 0
StartTime == 10
\* inline values of the container's style.overflowAnchor before a job: not
\* set, or set by the host or a theme
AnchorValues == {"", "auto", "none"}
\* clientY positions of a touch point
TouchYs == {0, 18, 36}
\* deltaY of a wheel event
WheelDeltas == {-1, 0, 1}

\* what the user types into the number inputs of the panel while jobs run:
\* "3" and "1000.5", "2" and "4.5", "1.5"
PanelValues ==
  [initialRenderCount |-> {[kind |-> "numstr", twice |-> 6], [kind |-> "numstr", twice |-> 2001]},
   loadMoreBatchSize |-> {[kind |-> "numstr", twice |-> 4], [kind |-> "numstr", twice |-> 9]},
   autoLoadThresholdPx |-> {[kind |-> "numstr", twice |-> 3]},
   disableCodeHighlight |-> {}]
\* values handed to clampInt: 2.5, -1.5, -0.5, 10000.5, "2.5", NaN, Infinity,
\* -Infinity, "abc", "" and undefined
RawValues ==
  {[kind |-> "number", twice |-> 5], [kind |-> "number", twice |-> -3],
   [kind |-> "number", twice |-> -1], [kind |-> "number", twice |-> 20001],
   [kind |-> "numstr", twice |-> 5], [kind |-> "nan", twice |-> 0],
   [kind |-> "inf", twice |-> 1], [kind |-> "inf", twice |-> -1],
   [kind |-> "text", twice |-> 0], [kind |-> "empty", twice |-> 0],
   [kind |-> "undefined", twice |-> 0]}
\* the numeric settings
NumericFields ==
  {"initialRenderCount", "loadMoreBatchSize", "autoLoadThresholdPx", "autoLoadCooldownMs"}
\* any of RawValues in a number input, the highlight checkbox left alone
RawInputs ==
  [initialRenderCount |-> RawValues, loadMoreBatchSize |-> RawValues,
   autoLoadThresholdPx |-> RawValues, disableCodeHighlight |-> {}]
\* the functions of highlight.js the module replaces
HljsFunctions == {"highlightElement", "highlightAll", "highlightBlock"}
\* globalThis.hljs before anything is patched: not loaded yet, or loaded with
\* or without the deprecated highlightBlock
HljsLibraries ==
  {[present |-> FALSE, fn |-> [f \in HljsFunctions |-> "undefined"]],
   [present |-> TRUE, fn |-> [f \in HljsFunctions |-> "original"]],
   [present |-> TRUE,
    fn |-> [f \in HljsFunctions |-> IF f = "highlightBlock" THEN "undefined" ELSE "original"]]}

\* absent values: _touchStartY === null, insertBefore: null, "no timestamp"
Null == -1

VARIABLES
  dom,                \* ids of the .mes children of #chat, top to bottom
  affordance,         \* #show_more_messages is in the document
  chatPresent,        \* $('#chat') finds the scroll container
  scrollTop,          \* chatEl.scrollTop
  isLoadingMore,      \* _isLoadingMore
  jobs,               \* live activations of loadMoreChunked, oldest first
  loadMoreBatchSize,  \* _loadMoreBatchSize
  autoLoadMoreEnabled,\* _autoLoadMoreEnabled
  autoLoadThresholdPx,\* _autoLoadThresholdPx
  autoLoadCooldownMs, \* _autoLoadCooldownMs
  lastAutoLoadTs,     \* _lastAutoLoadTs
  autoLoadRafPending, \* _autoLoadRafPending
  evalCallbacks,      \* requestAnimationFrame callbacks of onScroll not yet run
  overflowAnchor,     \* chatEl.style.overflowAnchor
  touchStartY,        \* _touchStartY
  now,                \* Date.now()
  powerUserSettings,  \* ctx.powerUserSettings
  settings,           \* ctx.extensionSettings[EXTENSION_NAME]
  install,            \* _loadMoreInstalled, _autoLoadInstalled, _topIntentInstalled,
                      \* the listeners attached and the 500 ms retries pending
  hljs,               \* globalThis.hljs
  hljsOriginal,       \* _hljsOriginal: <<>> is null
  hist                \* observation record (not program state)

vars == <<dom, affordance, chatPresent, install, hljs, hljsOriginal, scrollTop, isLoadingMore, jobs,
          loadMoreBatchSize, autoLoadMoreEnabled, autoLoadThresholdPx,
          autoLoadCooldownMs, lastAutoLoadTs, autoLoadRafPending,
          touchStartY, now, powerUserSettings, settings, evalCallbacks,
          overflowAnchor, hist>>

\* what a backfill job reads or writes
jobVars == <<dom, affordance, scrollTop, isLoadingMore, jobs, lastAutoLoadTs,
             powerUserSettings, overflowAnchor>>

(* ---------------------------- helpers --------------------------------- *)
Min(a, b) == IF a <= b THEN a ELSE b

Max(a, b) == IF a >= b THEN a ELSE b

\* the sequence <<lo, lo+1, ..., hi>>
Range(lo, hi) == [i \in 1..Max(hi - lo + 1, 0) |-> lo + i - 1]

\* rendered height of one entry
Height(id) == 1 + (id % 2)

RECURSIVE SumHeights(_)
SumHeights(d) == IF d = <<>> THEN 0 ELSE Height(Head(d)) + SumHeights(Tail(d))

\* chatEl.scrollHeight
ScrollHeight(d) == SumHeights(d)

\* position of the element with the given mesid in the container, 0 if absent
IndexOf(d, id) ==
  IF \E i \in 1..Len(d) : d[i] = id
    THEN CHOOSE i \in 1..Len(d) : d[i] = id /\ \A j \in 1..(i - 1) : d[j] # id
    ELSE 0

\* the mesid of the last child taken instead of the first
FirstDisplayedMesIdLast(d) == IF d = <<>> THEN Total ELSE d[Len(d)]

\* Number(chatElement.children('.mes').first().attr('mesid')), NaN -> chat.length
FirstDisplayedMesId(d) == IF d = <<>> THEN Total ELSE Head(d)

\* lower bound of the RenderWindow
cursor == FirstDisplayedMesId(dom)

\* DEFAULT_SETTINGS (the numeric settings and autoLoadMore)
DEFAULT_SETTINGS ==
  [initialRenderCount |-> 20, loadMoreBatchSize |-> 20, disableCodeHighlight |-> TRUE,
   autoLoadMore |-> TRUE, autoLoadThresholdPx |-> 400, autoLoadCooldownMs |-> 250]

\* a JavaScript value handed to clampInt: kind "number" is the finite number
\* twice/2, "numstr" the string that spells it, "nan" NaN, "inf" +Infinity or
\* -Infinity (the sign of twice), "text" a string that spells no number,
\* "empty" the empty string or null, "undefined" undefined
Num(i) == [kind |-> "number", twice |-> 2 * i]

\* the integer a value of kind "number" with even twice stands for
IntOf(value) == value.twice \div 2

\* Number(value): a double as a record of kind "number", "nan" or "inf"
Number(value) ==
  CASE value.kind \in {"number", "numstr"} -> [kind |-> "number", twice |-> value.twice]
    [] value.kind = "empty" -> [kind |-> "number", twice |-> 0]
    [] value.kind \in {"text", "undefined"} -> [kind |-> "nan", twice |-> 0]
    [] OTHER -> value

\* Math.trunc of the finite number twice/2
Trunc(twice) == IF twice >= 0 THEN twice \div 2 ELSE -((-twice) \div 2)

clampInt(value, min, max, fallback) ==
  LET n == Number(value) IN
  IF n.kind # "number" THEN fallback
  ELSE LET i == Trunc(n.twice) IN
       IF i < min THEN min ELSE IF i > max THEN max ELSE i

\* ctx.addOneMessage(ctx.chat[newId], {insertBefore: before, forceId: newId})
addOneMessage(d, newId, before) ==
  IF before = Null THEN Append(d, newId)
  ELSE LET i == IndexOf(d, before) IN
       IF i = 0 THEN d
       ELSE SubSeq(d, 1, i - 1) \o <<newId>> \o SubSeq(d, i, Len(d))

(* ------------------- insertMessagesInRafChunks ------------------------ *)
\* stepLoop with "insertBefore" left out of the options: every entry is appended
RECURSIVE stepLoopAppend(_, _)
stepLoopAppend(s, throwAt) ==
  IF s.messageId > 0 /\ s.remaining > 0 /\ s.processed < PerFrame
    THEN IF s.processed = throwAt
           THEN [s EXCEPT !.threw = TRUE]
           ELSE stepLoopAppend([dom       |-> addOneMessage(s.dom, s.messageId - 1, Null),
                                messageId |-> s.messageId - 1,
                                remaining |-> s.remaining - 1,
                                inserted  |-> s.inserted + 1,
                                processed |-> s.processed + 1,
                                ids       |-> Append(s.ids, s.messageId - 1),
                                threw     |-> FALSE], throwAt)
    ELSE s

\* stepLoop with messageId decremented twice per iteration
RECURSIVE stepLoopSkip(_, _)
stepLoopSkip(s, throwAt) ==
  IF s.messageId > 0 /\ s.remaining > 0 /\ s.processed < PerFrame
    THEN IF s.processed = throwAt
           THEN [s EXCEPT !.threw = TRUE]
           ELSE stepLoopSkip([dom       |-> addOneMessage(s.dom, s.messageId - 1,
                                             IF s.messageId >= Total THEN Null ELSE s.messageId),
                              messageId |-> s.messageId - 2,
                              remaining |-> s.remaining - 1,
                              inserted  |-> s.inserted + 1,
                              processed |-> s.processed + 1,
                              ids       |-> Append(s.ids, s.messageId - 1),
                              threw     |-> FALSE], throwAt)
    ELSE s

\* stepLoop with messageId and remaining decremented before ctx.addOneMessage
\* is called, so that a throw leaves them one past the last inserted entry
RECURSIVE stepLoopDecrementFirst(_, _)
stepLoopDecrementFirst(s, throwAt) ==
  IF s.messageId > 0 /\ s.remaining > 0 /\ s.processed < PerFrame
    THEN IF s.processed = throwAt
           THEN [s EXCEPT !.threw = TRUE, !.messageId = @ - 1, !.remaining = @ - 1]
           ELSE stepLoopDecrementFirst(
                  [dom       |-> addOneMessage(s.dom, s.messageId - 1,
                                   IF s.messageId >= Total THEN Null ELSE s.messageId),
                   messageId |-> s.messageId - 1,
                   remaining |-> s.remaining - 1,
                   inserted  |-> s.inserted + 1,
                   processed |-> s.processed + 1,
                   ids       |-> Append(s.ids, s.messageId - 1),
                   threw     |-> FALSE], throwAt)
    ELSE s

\* stepLoop with "processed <= perFrame" as the loop test
RECURSIVE stepLoopOneMore(_, _)
stepLoopOneMore(s, throwAt) ==
  IF s.messageId > 0 /\ s.remaining > 0 /\ s.processed <= PerFrame
    THEN IF s.processed = throwAt
           THEN [s EXCEPT !.threw = TRUE]
           ELSE stepLoopOneMore(
                  [dom       |-> addOneMessage(s.dom, s.messageId - 1,
                                   IF s.messageId >= Total THEN Null ELSE s.messageId),
                   messageId |-> s.messageId - 1,
                   remaining |-> s.remaining - 1,
                   inserted  |-> s.inserted + 1,
                   processed |-> s.processed + 1,
                   ids       |-> Append(s.ids, s.messageId - 1),
                   threw     |-> FALSE], throwAt)
    ELSE s

\* stepLoop with "messageId > ctx.chat.length" as the test for appending
RECURSIVE stepLoopBeforeTotal(_, _)
stepLoopBeforeTotal(s, throwAt) ==
  IF s.messageId > 0 /\ s.remaining > 0 /\ s.processed < PerFrame
    THEN IF s.processed = throwAt
           THEN [s EXCEPT !.threw = TRUE]
           ELSE stepLoopBeforeTotal(
                  [dom       |-> addOneMessage(s.dom, s.messageId - 1,
                                   IF s.messageId > Total THEN Null ELSE s.messageId),
                   messageId |-> s.messageId - 1,
                   remaining |-> s.remaining - 1,
                   inserted  |-> s.inserted + 1,
                   processed |-> s.processed + 1,
                   ids       |-> Append(s.ids, s.messageId - 1),
                   threw     |-> FALSE], throwAt)
    ELSE s

\* stepLoop without the test "messageId > 0"
RECURSIVE stepLoopNoFloor(_, _)
stepLoopNoFloor(s, throwAt) ==
  IF s.remaining > 0 /\ s.processed < PerFrame
    THEN IF s.processed = throwAt
           THEN [s EXCEPT !.threw = TRUE]
           ELSE stepLoopNoFloor(
                  [dom       |-> addOneMessage(s.dom, s.messageId - 1,
                                   IF s.messageId >= Total THEN Null ELSE s.messageId),
                   messageId |-> s.messageId - 1,
                   remaining |-> s.remaining - 1,
                   inserted  |-> s.inserted + 1,
                   processed |-> s.processed + 1,
                   ids       |-> Append(s.ids, s.messageId - 1),
                   threw     |-> FALSE], throwAt)
    ELSE s

\* the while loop of step(): s holds the closure's messageId, remaining and
\* inserted, the container's children and the loop counter; throwAt is the
\* value of processed at which ctx.addOneMessage throws (Null: it never does);
\* the state after one iteration is bound to n, so that it is computed once
RECURSIVE stepLoop(_, _)
stepLoop(s, throwAt) ==
  IF s.messageId > 0 /\ s.remaining > 0 /\ s.processed < PerFrame
    THEN IF s.processed = throwAt
           THEN [s EXCEPT !.threw = TRUE]
           ELSE CHOOSE r \in
                  {stepLoop(n, throwAt) :
                     n \in {[dom       |-> addOneMessage(s.dom, s.messageId - 1,
                                             IF s.messageId >= Total THEN Null ELSE s.messageId),
                              messageId |-> s.messageId - 1,
                              remaining |-> s.remaining - 1,
                              inserted  |-> s.inserted + 1,
                              processed |-> s.processed + 1,
                              ids       |-> Append(s.ids, s.messageId - 1),
                              threw     |-> FALSE]}} : TRUE
    ELSE s

\* loopEntry with the count left to insert taken from _loadMoreBatchSize at
\* every frame step
loopEntryLive(j) ==
  [dom |-> dom, messageId |-> j.messageId, remaining |-> loadMoreBatchSize - j.inserted,
   inserted |-> j.inserted, processed |-> 0, ids |-> j.ids, threw |-> FALSE]

\* the state of the loop when step() is entered for job j
loopEntry(j) ==
  [dom |-> dom, messageId |-> j.messageId, remaining |-> j.remaining,
   inserted |-> j.inserted, processed |-> 0, ids |-> j.ids, threw |-> FALSE]

\* newJob with one entry too many to insert
newJobOffByOne(messageId, batchSize) ==
  [pc |-> "raf", messageId |-> messageId, remaining |-> batchSize + 1, inserted |-> 0,
   startId |-> messageId, batchSize |-> batchSize, ids |-> <<>>, failedId |-> Null,
   retryOf |-> hist.abortedCursor, src |-> "click",
   prevAutoScroll |-> "undefined", prevOverflowAnchor |-> "", frames |-> 0,
   disabledDuring |-> FALSE]

\* the closure created by insertMessagesInRafChunks(ctx, messageId, batchSize, 3, chatEl, true);
\* prevAutoScroll and prevOverflowAnchor are the locals of the call of
\* loadMoreChunked that awaits the promise;
\* startId, batchSize, ids (the ids passed to addOneMessage, in call order),
\* failedId (the id whose insertion threw), retryOf (the window's lower
\* bound at the aborted call this job follows), frames (the number of
\* step() callbacks run) and disabledDuring (autoLoadMore was switched off
\* while the job was live) are kept for observation
newJob(messageId, batchSize) ==
  [pc |-> "raf", messageId |-> messageId, remaining |-> batchSize, inserted |-> 0,
   startId |-> messageId, batchSize |-> batchSize, ids |-> <<>>, failedId |-> Null,
   retryOf |-> hist.abortedCursor, src |-> "click",
   prevAutoScroll |-> "undefined", prevOverflowAnchor |-> "", frames |-> 0,
   disabledDuring |-> FALSE]

RemoveAt(q, i) == SubSeq(q, 1, i - 1) \o SubSeq(q, i + 1, Len(q))

\* the exhaustion test with the bound one too high
noMoreOffByOne(finalMessageId) == finalMessageId <= 1

\* "if (finalMessageId <= 0)": the log is exhausted, the affordance is removed
noMore(finalMessageId) == finalMessageId <= 0

\* the notification counted twice
notificationsTwice(done) == IF done THEN 2 ELSE 0

\* the number of MORE_MESSAGES_LOADED events the continuation of
\* loadMoreChunked emits after a frame step: one when the promise resolved
notifications(done) == IF done THEN 1 ELSE 0

\* one requestAnimationFrame(step) callback of job i that returns normally,
\* followed (when it resolves the promise) by the continuation of
\* loadMoreChunked up to its await of the MORE_MESSAGES_LOADED emit
step(i) ==
  /\ i \in DOMAIN jobs
  /\ jobs[i].pc = "raf"
  /\ \E j \in {jobs[i]} : \E e \in {loopEntry(j)} : \E r \in {stepLoop(e, Null)} :
     LET delta == ScrollHeight(r.dom) - ScrollHeight(dom)
         done == r.messageId <= 0 \/ r.remaining <= 0
         exhausted == done /\ noMore(r.messageId)
     IN /\ dom' = r.dom
        /\ scrollTop' = scrollTop + delta
        /\ jobs' = [jobs EXCEPT ![i] = [j EXCEPT !.messageId = r.messageId,
                                                 !.remaining = r.remaining,
                                                 !.inserted = r.inserted,
                                                 !.ids = r.ids,
                                                 !.frames = @ + 1,
                                                 !.pc = IF done THEN "emit" ELSE "raf"]]
        /\ affordance' = IF exhausted THEN FALSE ELSE affordance
        /\ hist' = [hist EXCEPT !.removeCalls = IF exhausted THEN @ + 1 ELSE @,
                                !.notified = @ + notifications(done)]
  /\ UNCHANGED <<chatPresent, install, hljs, hljsOriginal, isLoadingMore, overflowAnchor, loadMoreBatchSize, autoLoadMoreEnabled,
                 autoLoadThresholdPx, autoLoadCooldownMs, lastAutoLoadTs,
                 autoLoadRafPending, evalCallbacks, touchStartY, now, powerUserSettings, settings>>

\* a step() callback of job i in which ctx.addOneMessage throws after k
\* insertions: the exception leaves step(), so neither the compensation nor
\* resolve nor requestAnimationFrame(step) runs
stepThrows(i, k) ==
  /\ i \in DOMAIN jobs
  /\ jobs[i].pc = "raf"
  /\ \E j \in {jobs[i]} : \E e \in {loopEntry(j)} : \E r \in {stepLoop(e, k)} :
        /\ r.threw
        /\ dom' = r.dom
        /\ jobs' = [jobs EXCEPT ![i] = [j EXCEPT !.messageId = r.messageId,
                                                 !.remaining = r.remaining,
                                                 !.inserted = r.inserted,
                                                 !.ids = r.ids,
                                                 !.failedId = r.messageId - 1,
                                                 !.frames = @ + 1,
                                                 !.pc = "threw"]]
  /\ UNCHANGED <<hist, affordance, chatPresent, install, hljs, hljsOriginal, scrollTop, isLoadingMore, overflowAnchor, loadMoreBatchSize,
                 autoLoadMoreEnabled, autoLoadThresholdPx, autoLoadCooldownMs,
                 lastAutoLoadTs, autoLoadRafPending, evalCallbacks, touchStartY, now,
                 powerUserSettings, settings>>

(* ------------------------- loadMoreChunked ---------------------------- *)
\* prevAutoScroll of loadMoreChunked: the host's setting when it is a boolean
prevAutoScroll ==
  IF powerUserSettings.present
       /\ powerUserSettings.auto_scroll_chat_to_bottom \in {"true", "false"}
    THEN powerUserSettings.auto_scroll_chat_to_bottom
    ELSE "undefined"

\* loadMoreChunked from "_isLoadingMore = true" to the await of the promise,
\* the container being there
startJob(src) ==
  /\ isLoadingMore' = TRUE
  /\ powerUserSettings' =
       IF prevAutoScroll # "undefined"
         THEN [powerUserSettings EXCEPT !.auto_scroll_chat_to_bottom = "false"]
         ELSE powerUserSettings
  /\ overflowAnchor' = "none"
  /\ jobs' = Append(jobs, [newJob(FirstDisplayedMesId(dom),
                                  clampInt(Num(loadMoreBatchSize), 1, 500,
                                           DEFAULT_SETTINGS.loadMoreBatchSize))
                             EXCEPT !.src = src, !.prevAutoScroll = prevAutoScroll,
                                    !.prevOverflowAnchor = overflowAnchor])
  /\ UNCHANGED <<dom, affordance, scrollTop>>
  /\ hist' = [hist EXCEPT !.lastStartAny = now,
                          !.lastStartAuto = IF src = "click" THEN @ ELSE now,
                          !.lastAccept = IF src = "click" THEN @ ELSE now,
                          !.abortedCursor = Null,
                          !.notified = 0,
                          !.reloaded = FALSE,
                          !.hostAutoScroll = "none"]

\* loadMoreChunked without its first line "if (_isLoadingMore) return"
loadMoreChunkedNoBusyCheck(src) ==
  IF ~chatPresent
    THEN /\ isLoadingMore' = FALSE
         /\ UNCHANGED <<dom, affordance, scrollTop, jobs, powerUserSettings, overflowAnchor>>
         /\ hist' = [hist EXCEPT !.abortedCursor = cursor, !.notified = 0,
                                   !.lastAccept = IF src = "click" THEN @ ELSE now]
    ELSE startJob(src)

\* loadMoreChunked without the finally block on the container-missing return
loadMoreChunkedNoFinally(src) ==
  IF isLoadingMore
    THEN /\ UNCHANGED <<dom, affordance, scrollTop, isLoadingMore, overflowAnchor, jobs, powerUserSettings>>
         /\ hist' = hist
    ELSE IF ~chatPresent
      THEN /\ isLoadingMore' = TRUE
           /\ powerUserSettings' =
                IF prevAutoScroll # "undefined"
                  THEN [powerUserSettings EXCEPT !.auto_scroll_chat_to_bottom = "false"]
                  ELSE powerUserSettings
           /\ UNCHANGED <<dom, affordance, scrollTop, jobs, overflowAnchor>>
           /\ hist' = [hist EXCEPT !.abortedCursor = cursor, !.notified = 0,
                                   !.lastAccept = IF src = "click" THEN @ ELSE now]
      ELSE startJob(src)

\* the synchronous part of loadMoreChunked, up to the await of the promise
\* (or to the end of the finally block when the container is missing: the
\* auto-scroll setting forced off at line 401 is set back at line 452)
loadMoreChunked(src) ==
  IF isLoadingMore
    THEN /\ UNCHANGED <<dom, affordance, scrollTop, isLoadingMore, overflowAnchor, jobs, powerUserSettings>>
         /\ hist' = hist
    ELSE IF ~chatPresent
      THEN /\ isLoadingMore' = FALSE
           /\ powerUserSettings' =
                IF prevAutoScroll # "undefined"
                  THEN [powerUserSettings EXCEPT !.auto_scroll_chat_to_bottom = prevAutoScroll]
                  ELSE powerUserSettings
           /\ UNCHANGED <<dom, affordance, scrollTop, jobs, overflowAnchor>>
           /\ hist' = [hist EXCEPT !.abortedCursor = cursor, !.notified = 0,
                                   !.lastAccept = IF src = "click" THEN @ ELSE now]
      ELSE startJob(src)

\* emitDone with "_isLoadingMore = false" left out of the finally block
emitDoneNoRelease(i) ==
  /\ i \in DOMAIN jobs
  /\ jobs[i].pc = "emit"
  /\ jobs' = RemoveAt(jobs, i)
  /\ UNCHANGED <<dom, affordance, chatPresent, install, hljs, hljsOriginal, scrollTop, loadMoreBatchSize,
                 autoLoadMoreEnabled, autoLoadThresholdPx, autoLoadCooldownMs,
                 lastAutoLoadTs, autoLoadRafPending, evalCallbacks, touchStartY, now,
                 settings, hist, powerUserSettings, overflowAnchor, isLoadingMore>>

\* emitDone with "_lastAutoLoadTs = Date.now()" added to the finally block
emitDoneStamps(i) ==
  /\ i \in DOMAIN jobs
  /\ jobs[i].pc = "emit"
  /\ jobs' = RemoveAt(jobs, i)
  /\ powerUserSettings' =
       IF jobs[i].prevAutoScroll # "undefined"
         THEN [powerUserSettings EXCEPT
                 !.auto_scroll_chat_to_bottom = jobs[i].prevAutoScroll]
         ELSE powerUserSettings
  /\ overflowAnchor' = jobs[i].prevOverflowAnchor
  /\ isLoadingMore' = FALSE
  /\ lastAutoLoadTs' = now
  /\ UNCHANGED <<dom, affordance, chatPresent, install, hljs, hljsOriginal, scrollTop, loadMoreBatchSize,
                 autoLoadMoreEnabled, autoLoadThresholdPx, autoLoadCooldownMs,
                 autoLoadRafPending, evalCallbacks, touchStartY, now, settings, hist>>

\* emitDone with the restore of overflow-anchor left out of the finally block
emitDoneNoAnchor(i) ==
  /\ i \in DOMAIN jobs
  /\ jobs[i].pc = "emit"
  /\ jobs' = RemoveAt(jobs, i)
  /\ powerUserSettings' =
       IF jobs[i].prevAutoScroll # "undefined"
         THEN [powerUserSettings EXCEPT
                 !.auto_scroll_chat_to_bottom = jobs[i].prevAutoScroll]
         ELSE powerUserSettings
  /\ isLoadingMore' = FALSE
  /\ UNCHANGED <<dom, affordance, chatPresent, install, hljs, hljsOriginal, scrollTop, loadMoreBatchSize,
                 autoLoadMoreEnabled, autoLoadThresholdPx, autoLoadCooldownMs,
                 lastAutoLoadTs, autoLoadRafPending, evalCallbacks, touchStartY, now,
                 settings, hist, overflowAnchor>>

\* the rest of loadMoreChunked after the await of the MORE_MESSAGES_LOADED
\* emit: MESSAGE_UPDATED, then the finally block
emitDone(i) ==
  /\ i \in DOMAIN jobs
  /\ jobs[i].pc = "emit"
  /\ jobs' = RemoveAt(jobs, i)
  /\ powerUserSettings' =
       IF jobs[i].prevAutoScroll # "undefined"
         THEN [powerUserSettings EXCEPT
                 !.auto_scroll_chat_to_bottom = jobs[i].prevAutoScroll]
         ELSE powerUserSettings
  /\ overflowAnchor' = jobs[i].prevOverflowAnchor
  /\ isLoadingMore' = FALSE
  /\ UNCHANGED <<dom, affordance, chatPresent, install, hljs, hljsOriginal, scrollTop, loadMoreBatchSize,
                 autoLoadMoreEnabled, autoLoadThresholdPx, autoLoadCooldownMs,
                 lastAutoLoadTs, autoLoadRafPending, evalCallbacks, touchStartY, now, settings, hist>>

(* --------------------------- trigger gate ----------------------------- *)
\* the cooldown test one unit of time short
cooldownActiveShort ==
  autoLoadCooldownMs > 0 /\ (now - lastAutoLoadTs) < autoLoadCooldownMs - 1

\* the cooldown test shared by maybeTrigger and canTrigger
cooldownActive == autoLoadCooldownMs > 0 /\ (now - lastAutoLoadTs) < autoLoadCooldownMs

\* maybeTrigger() without the test for #show_more_messages
maybeTriggerGateNoAffordance ==
  IF ~autoLoadMoreEnabled THEN "disabled"
  ELSE IF isLoadingMore THEN "busy"
  ELSE IF scrollTop > autoLoadThresholdPx THEN "far"
  ELSE IF cooldownActive THEN "cooldown"
  ELSE "pass"

\* maybeTrigger() without the test of _autoLoadMoreEnabled
maybeTriggerGateNoEnabled ==
  IF isLoadingMore THEN "busy"
  ELSE IF ~affordance THEN "gone"
  ELSE IF scrollTop > autoLoadThresholdPx THEN "far"
  ELSE IF cooldownActive THEN "cooldown"
  ELSE "pass"

\* maybeTrigger() without the test of scrollTop against the threshold
maybeTriggerGateNoThreshold ==
  IF ~autoLoadMoreEnabled THEN "disabled"
  ELSE IF isLoadingMore THEN "busy"
  ELSE IF ~affordance THEN "gone"
  ELSE IF cooldownActive THEN "cooldown"
  ELSE "pass"

\* maybeTrigger(): the first return taken, or "pass" when "_lastAutoLoadTs = now" is reached
maybeTriggerGate ==
  IF ~autoLoadMoreEnabled THEN "disabled"
  ELSE IF isLoadingMore THEN "busy"
  ELSE IF ~affordance THEN "gone"
  ELSE IF scrollTop > autoLoadThresholdPx THEN "far"
  ELSE IF cooldownActive THEN "cooldown"
  ELSE "pass"

\* canTrigger() without the test for #show_more_messages
canTriggerNoAffordance ==
  IF isLoadingMore THEN "busy"
  ELSE IF scrollTop > 0 THEN "far"
  ELSE IF cooldownActive THEN "cooldown"
  ELSE "pass"

\* canTrigger() with no cooldown test of its own
canTriggerNoCooldown ==
  IF isLoadingMore THEN "busy"
  ELSE IF ~affordance THEN "gone"
  ELSE IF scrollTop > 0 THEN "far"
  ELSE "pass"

\* canTrigger() of installTopIntentLoadMore: the first "return false" taken, or "pass"
canTrigger ==
  IF isLoadingMore THEN "busy"
  ELSE IF ~affordance THEN "gone"
  ELSE IF scrollTop > 0 THEN "far"
  ELSE IF cooldownActive THEN "cooldown"
  ELSE "pass"

\* the click handler held back by the cooldown of the other sources
ClickCooldown ==
  /\ affordance
  /\ IF cooldownActive
       THEN UNCHANGED <<dom, affordance, scrollTop, isLoadingMore, overflowAnchor, jobs, powerUserSettings, hist>>
       ELSE loadMoreChunked("click")
  /\ UNCHANGED <<chatPresent, install, hljs, hljsOriginal, loadMoreBatchSize, autoLoadMoreEnabled, autoLoadThresholdPx,
                 autoLoadCooldownMs, lastAutoLoadTs, autoLoadRafPending, evalCallbacks, touchStartY, now,
                 settings>>

\* mouseup/touchend on #show_more_messages (delegated handler of
\* installLoadMoreOverride): the element has to exist to be activated
Click ==
  /\ affordance
  /\ loadMoreChunked("click")
  /\ UNCHANGED <<chatPresent, install, hljs, hljsOriginal, loadMoreBatchSize, autoLoadMoreEnabled, autoLoadThresholdPx,
                 autoLoadCooldownMs, lastAutoLoadTs, autoLoadRafPending, evalCallbacks, touchStartY, now,
                 settings>>

\* onScroll without "if (_autoLoadRafPending) return": every scroll event
\* registers a callback (up to three are followed)
onScrollNoCoalesce(top) ==
  /\ top \in 0..MaxScroll
  /\ scrollTop' = top
  /\ autoLoadRafPending' = IF autoLoadMoreEnabled THEN TRUE ELSE autoLoadRafPending
  /\ evalCallbacks' = IF autoLoadMoreEnabled /\ evalCallbacks < 3
                        THEN evalCallbacks + 1 ELSE evalCallbacks
  /\ UNCHANGED <<dom, affordance, chatPresent, install, hljs, hljsOriginal, isLoadingMore, overflowAnchor, jobs,
                 loadMoreBatchSize, autoLoadMoreEnabled, autoLoadThresholdPx,
                 autoLoadCooldownMs, lastAutoLoadTs, touchStartY, now, powerUserSettings,
                 settings, hist>>

\* the user scrolls the container to offset top; the scroll event runs onScroll
onScroll(top) ==
  /\ top \in 0..MaxScroll
  /\ scrollTop' = top
  /\ autoLoadRafPending' = IF autoLoadMoreEnabled THEN TRUE ELSE autoLoadRafPending
  /\ evalCallbacks' = IF autoLoadMoreEnabled /\ ~autoLoadRafPending
                        THEN evalCallbacks + 1 ELSE evalCallbacks
  /\ UNCHANGED <<dom, affordance, chatPresent, install, hljs, hljsOriginal, isLoadingMore, overflowAnchor, jobs, loadMoreBatchSize,
                 autoLoadMoreEnabled, autoLoadThresholdPx, autoLoadCooldownMs,
                 lastAutoLoadTs, touchStartY, now, powerUserSettings, settings, hist>>

\* the requestAnimationFrame callback registered by onScroll
maybeTrigger ==
  /\ evalCallbacks > 0
  /\ evalCallbacks' = evalCallbacks - 1
  /\ autoLoadRafPending' = FALSE
  /\ IF maybeTriggerGate = "pass"
       THEN /\ lastAutoLoadTs' = now
            /\ loadMoreChunked("scroll")
       ELSE UNCHANGED <<dom, affordance, scrollTop, isLoadingMore, overflowAnchor, jobs, lastAutoLoadTs,
                        powerUserSettings, hist>>
  /\ UNCHANGED <<chatPresent, install, hljs, hljsOriginal, loadMoreBatchSize, autoLoadMoreEnabled, autoLoadThresholdPx,
                 autoLoadCooldownMs, touchStartY, now, settings>>

\* onWheel without "if (e.deltaY >= 0) return"
onWheelNoDeltaTest(deltaY) ==
  /\ deltaY \in WheelDeltas
  /\ IF canTrigger = "pass"
       THEN /\ lastAutoLoadTs' = now
            /\ loadMoreChunked("wheel")
       ELSE UNCHANGED <<dom, affordance, scrollTop, isLoadingMore, overflowAnchor, jobs,
                        lastAutoLoadTs, powerUserSettings, hist>>
  /\ UNCHANGED <<chatPresent, install, hljs, hljsOriginal, loadMoreBatchSize, autoLoadMoreEnabled, autoLoadThresholdPx,
                 autoLoadCooldownMs, autoLoadRafPending, evalCallbacks, touchStartY, now,
                 settings>>

\* the wheel listener of installTopIntentLoadMore
onWheel(deltaY) ==
  /\ deltaY \in WheelDeltas
  /\ IF deltaY >= 0
       THEN UNCHANGED <<dom, affordance, scrollTop, isLoadingMore, overflowAnchor, jobs, lastAutoLoadTs,
                        powerUserSettings, hist>>
       ELSE IF canTrigger = "pass"
         THEN /\ lastAutoLoadTs' = now
              /\ loadMoreChunked("wheel")
         ELSE UNCHANGED <<dom, affordance, scrollTop, isLoadingMore, overflowAnchor, jobs, lastAutoLoadTs,
                        powerUserSettings, hist>>
  /\ UNCHANGED <<chatPresent, install, hljs, hljsOriginal, loadMoreBatchSize, autoLoadMoreEnabled, autoLoadThresholdPx,
                 autoLoadCooldownMs, autoLoadRafPending, evalCallbacks, touchStartY, now, settings>>

onTouchStart(y) ==
  /\ y \in TouchYs
  /\ touchStartY' = y
  /\ UNCHANGED <<dom, affordance, chatPresent, install, hljs, hljsOriginal, scrollTop, isLoadingMore, overflowAnchor, jobs,
                 loadMoreBatchSize, autoLoadMoreEnabled, autoLoadThresholdPx,
                 autoLoadCooldownMs, lastAutoLoadTs, autoLoadRafPending, evalCallbacks, now,
                 powerUserSettings, settings, hist>>

\* onTouchMove without "_touchStartY = y"
onTouchMoveNoReset(y) ==
  /\ y \in TouchYs
  /\ IF touchStartY = Null \/ y - touchStartY < TouchDistance
       THEN UNCHANGED <<dom, affordance, scrollTop, isLoadingMore, overflowAnchor, jobs,
                        lastAutoLoadTs, powerUserSettings, hist>>
       ELSE IF canTrigger = "pass"
         THEN /\ lastAutoLoadTs' = now
              /\ loadMoreChunked("touch")
         ELSE UNCHANGED <<dom, affordance, scrollTop, isLoadingMore, overflowAnchor, jobs,
                          lastAutoLoadTs, powerUserSettings, hist>>
  /\ UNCHANGED <<chatPresent, install, hljs, hljsOriginal, loadMoreBatchSize, autoLoadMoreEnabled, autoLoadThresholdPx,
                 autoLoadCooldownMs, autoLoadRafPending, evalCallbacks, now, settings,
                 touchStartY>>

\* onTouchMove without the test "_touchStartY === null" (y - null is y)
onTouchMoveNoRef(y) ==
  /\ y \in TouchYs
  /\ IF y - (IF touchStartY = Null THEN 0 ELSE touchStartY) < TouchDistance
       THEN UNCHANGED <<dom, affordance, scrollTop, isLoadingMore, overflowAnchor, jobs, lastAutoLoadTs,
                        touchStartY, powerUserSettings, hist>>
       ELSE IF canTrigger = "pass"
         THEN /\ lastAutoLoadTs' = now
              /\ touchStartY' = y
              /\ loadMoreChunked("touch")
         ELSE UNCHANGED <<dom, affordance, scrollTop, isLoadingMore, overflowAnchor, jobs, lastAutoLoadTs,
                          touchStartY, powerUserSettings, hist>>
  /\ UNCHANGED <<chatPresent, install, hljs, hljsOriginal, loadMoreBatchSize, autoLoadMoreEnabled, autoLoadThresholdPx,
                 autoLoadCooldownMs, autoLoadRafPending, evalCallbacks, now, settings>>

\* the touchmove listener of installTopIntentLoadMore
onTouchMove(y) ==
  /\ y \in TouchYs
  /\ IF touchStartY = Null \/ y - touchStartY < TouchDistance
       THEN UNCHANGED <<dom, affordance, scrollTop, isLoadingMore, overflowAnchor, jobs, lastAutoLoadTs,
                        touchStartY, powerUserSettings, hist>>
       ELSE IF canTrigger = "pass"
         THEN /\ lastAutoLoadTs' = now
              /\ touchStartY' = y
              /\ loadMoreChunked("touch")
         ELSE UNCHANGED <<dom, affordance, scrollTop, isLoadingMore, overflowAnchor, jobs, lastAutoLoadTs,
                          touchStartY, powerUserSettings, hist>>
  /\ UNCHANGED <<chatPresent, install, hljs, hljsOriginal, loadMoreBatchSize, autoLoadMoreEnabled, autoLoadThresholdPx,
                 autoLoadCooldownMs, autoLoadRafPending, evalCallbacks, now, settings>>

\* touchend and touchcancel
onTouchEnd ==
  /\ touchStartY' = Null
  /\ UNCHANGED <<dom, affordance, chatPresent, install, hljs, hljsOriginal, scrollTop, isLoadingMore, overflowAnchor, jobs,
                 loadMoreBatchSize, autoLoadMoreEnabled, autoLoadThresholdPx,
                 autoLoadCooldownMs, lastAutoLoadTs, autoLoadRafPending, evalCallbacks, now,
                 powerUserSettings, settings, hist>>

(* ---------------------------- settings -------------------------------- *)
\* ensureExtensionSettings: the stored settings s with absent fields set to
\* their defaults and every numeric field clamped
OrDefault(value, default) == IF value.kind = "undefined" THEN Num(default) ELSE value

ensureExtensionSettings(s) ==
  [initialRenderCount |->
     Num(clampInt(OrDefault(s.initialRenderCount, DEFAULT_SETTINGS.initialRenderCount),
                  1, 1000, DEFAULT_SETTINGS.initialRenderCount)),
   loadMoreBatchSize |->
     Num(clampInt(OrDefault(s.loadMoreBatchSize, DEFAULT_SETTINGS.loadMoreBatchSize),
                  1, 500, DEFAULT_SETTINGS.loadMoreBatchSize)),
   disableCodeHighlight |-> s.disableCodeHighlight,
   autoLoadMore |-> s.autoLoadMore,
   autoLoadThresholdPx |->
     Num(clampInt(OrDefault(s.autoLoadThresholdPx, DEFAULT_SETTINGS.autoLoadThresholdPx),
                  0, 10000, DEFAULT_SETTINGS.autoLoadThresholdPx)),
   autoLoadCooldownMs |->
     Num(clampInt(OrDefault(s.autoLoadCooldownMs, DEFAULT_SETTINGS.autoLoadCooldownMs),
                  0, 10000, DEFAULT_SETTINGS.autoLoadCooldownMs))]

\* applyChatTruncation with the range of the batch size
applyChatTruncationBatchRange(pus, count) ==
  IF ~pus.present THEN pus
  ELSE [pus EXCEPT !.chat_truncation =
          clampInt(count, 1, 500, DEFAULT_SETTINGS.initialRenderCount)]

\* applyChatTruncation(ctx, count): the value of ctx.powerUserSettings it leaves
applyChatTruncation(pus, count) ==
  IF ~pus.present THEN pus
  ELSE [pus EXCEPT !.chat_truncation =
          clampInt(count, 1, 1000, DEFAULT_SETTINGS.initialRenderCount)]

\* the last two elements of a sequence
LastTwo(q) == IF Len(q) > 2 THEN Tail(q) ELSE q

\* patchHljs that takes the snapshot on every call
patchHljsSnapshotsAgain(lib, original, disableHighlight) ==
  IF ~lib.present THEN [hljs |-> lib, hljsOriginal |-> original, snapshots |-> 0]
  ELSE LET snap == [f \in HljsFunctions |->
                      IF lib.fn[f] # "undefined" THEN lib.fn[f] ELSE "null"]
       IN [hljs |-> [lib EXCEPT !.fn =
                       IF disableHighlight
                         THEN [f \in HljsFunctions |->
                                 IF lib.fn[f] # "undefined" THEN "noop" ELSE lib.fn[f]]
                         ELSE [f \in HljsFunctions |->
                                 IF snap[f] # "null" THEN snap[f] ELSE lib.fn[f]]],
           hljsOriginal |-> <<snap>>,
           snapshots |-> 1]

\* patchHljs(disableHighlight): lib is globalThis.hljs and original is
\* _hljsOriginal when it is called; a function is "original" (the library's
\* own), "noop" (an arrow function of patchHljs) or "undefined"; the result
\* holds both after the call and the number of snapshots taken
patchHljs(lib, original, disableHighlight) ==
  IF ~lib.present THEN [hljs |-> lib, hljsOriginal |-> original, snapshots |-> 0]
  ELSE LET snap == IF original = <<>>
                     THEN [f \in HljsFunctions |->
                             IF lib.fn[f] # "undefined" THEN lib.fn[f] ELSE "null"]
                     ELSE original[1]
       IN [hljs |-> [lib EXCEPT !.fn =
                       IF disableHighlight
                         THEN [f \in HljsFunctions |->
                                 IF lib.fn[f] # "undefined" THEN "noop" ELSE lib.fn[f]]
                         ELSE [f \in HljsFunctions |->
                                 IF snap[f] # "null" THEN snap[f] ELSE lib.fn[f]]],
           hljsOriginal |-> <<snap>>,
           snapshots |-> IF original = <<>> THEN 1 ELSE 0]

\* installLoadMoreOverride(ctx), jQuery being there: .off() removes every
\* delegated mouseup/touchend handler of #show_more_messages, .on() adds one
installLoadMoreOverride(in) ==
  IF in.loadMoreInstalled THEN in
  ELSE [in EXCEPT !.clickHandlers = 1, !.loadMoreInstalled = TRUE]

\* installAutoLoadScrollTrigger without "if (_autoLoadInstalled) return"
installAutoLoadScrollTriggerNoFlag(in, present) ==
  IF ~present THEN [in EXCEPT !.autoLoadTimers = @ + 1]
  ELSE [in EXCEPT !.scrollListeners = @ + 1, !.autoLoadInstalled = TRUE]

\* installAutoLoadScrollTrigger(ctx) up to "_autoLoadInstalled = true";
\* present: document.getElementById('chat') is an element
installAutoLoadScrollTrigger(in, present) ==
  IF in.autoLoadInstalled THEN in
  ELSE IF ~present THEN [in EXCEPT !.autoLoadTimers = @ + 1]
  ELSE [in EXCEPT !.scrollListeners = @ + 1, !.autoLoadInstalled = TRUE]

\* installAutoLoadScrollTrigger reaches its last line, the call onScroll()
ranOnScroll(in, present) == ~in.autoLoadInstalled /\ present

\* installTopIntentLoadMore(ctx): the wheel and the four touch listeners are
\* attached together
installTopIntentLoadMore(in, present) ==
  IF in.topIntentInstalled THEN in
  ELSE IF ~present THEN [in EXCEPT !.topIntentTimers = @ + 1]
  ELSE [in EXCEPT !.topListeners = @ + 1, !.topIntentInstalled = TRUE]

\* the three install calls of applyAll, in order
installAll(in, present) ==
  installTopIntentLoadMore(
    installAutoLoadScrollTrigger(installLoadMoreOverride(in), present), present)

\* applyAll that drops the running job when autoLoadMore is off
applyAllCancels(s) ==
  /\ loadMoreBatchSize' = IntOf(s.loadMoreBatchSize)
  /\ autoLoadMoreEnabled' = s.autoLoadMore
  /\ autoLoadThresholdPx' = IntOf(s.autoLoadThresholdPx)
  /\ autoLoadCooldownMs' = IntOf(s.autoLoadCooldownMs)
  /\ \E p \in {patchHljs(hljs, hljsOriginal, s.disableCodeHighlight)} :
       /\ hljs' = p.hljs
       /\ hljsOriginal' = p.hljsOriginal
       /\ hist' = [hist EXCEPT
                     !.snapshots = @ + p.snapshots,
                     !.patched = IF ~hljs.present THEN @
                                 ELSE LastTwo(Append(@, IF s.disableCodeHighlight
                                                          THEN "disable" ELSE "enable"))]
  /\ powerUserSettings' = applyChatTruncation(powerUserSettings, s.initialRenderCount)
  /\ install' = installAll(install, chatPresent)
  /\ autoLoadRafPending' =
       (autoLoadRafPending \/ (ranOnScroll(install, chatPresent) /\ s.autoLoadMore))
  /\ evalCallbacks' =
       IF ranOnScroll(install, chatPresent) /\ s.autoLoadMore /\ ~autoLoadRafPending
         THEN evalCallbacks + 1 ELSE evalCallbacks
  /\ jobs' = IF s.autoLoadMore THEN jobs ELSE <<>>
  /\ isLoadingMore' = IF s.autoLoadMore THEN isLoadingMore ELSE FALSE
  /\ overflowAnchor' = overflowAnchor
  /\ UNCHANGED <<dom, affordance, chatPresent, scrollTop, lastAutoLoadTs, touchStartY, now>>

\* applyAll(ctx, s): the module variables, patchHljs, applyChatTruncation and
\* the three install calls (the last of which may run onScroll() once); a
\* live job is marked when autoLoadMore goes off
applyAll(s) ==
  /\ loadMoreBatchSize' = IntOf(s.loadMoreBatchSize)
  /\ autoLoadMoreEnabled' = s.autoLoadMore
  /\ autoLoadThresholdPx' = IntOf(s.autoLoadThresholdPx)
  /\ autoLoadCooldownMs' = IntOf(s.autoLoadCooldownMs)
  /\ \E p \in {patchHljs(hljs, hljsOriginal, s.disableCodeHighlight)} :
       /\ hljs' = p.hljs
       /\ hljsOriginal' = p.hljsOriginal
       /\ hist' = [hist EXCEPT
                     !.snapshots = @ + p.snapshots,
                     !.patched = IF ~hljs.present THEN @
                                 ELSE LastTwo(Append(@, IF s.disableCodeHighlight
                                                          THEN "disable" ELSE "enable"))]
  /\ powerUserSettings' = applyChatTruncation(powerUserSettings, s.initialRenderCount)
  /\ install' = installAll(install, chatPresent)
  /\ autoLoadRafPending' =
       (autoLoadRafPending \/ (ranOnScroll(install, chatPresent) /\ s.autoLoadMore))
  /\ evalCallbacks' =
       IF ranOnScroll(install, chatPresent) /\ s.autoLoadMore /\ ~autoLoadRafPending
         THEN evalCallbacks + 1 ELSE evalCallbacks
  /\ jobs' = [i \in DOMAIN jobs |->
                [jobs[i] EXCEPT !.disabledDuring =
                                  @ \/ (autoLoadMoreEnabled /\ ~s.autoLoadMore)]]
  /\ UNCHANGED <<dom, affordance, chatPresent, scrollTop, isLoadingMore, overflowAnchor,
                 lastAutoLoadTs, touchStartY, now>>

\* the callback of setTimeout(() => installAutoLoadScrollTrigger(ctx), 500)
installAutoLoadScrollTriggerRetry ==
  /\ install.autoLoadTimers > 0
  /\ \E in \in {[install EXCEPT !.autoLoadTimers = @ - 1]} :
       /\ install' = installAutoLoadScrollTrigger(in, chatPresent)
       /\ autoLoadRafPending' =
            (autoLoadRafPending \/ (ranOnScroll(in, chatPresent) /\ autoLoadMoreEnabled))
       /\ evalCallbacks' =
            IF ranOnScroll(in, chatPresent) /\ autoLoadMoreEnabled /\ ~autoLoadRafPending
              THEN evalCallbacks + 1 ELSE evalCallbacks
  /\ UNCHANGED <<dom, affordance, chatPresent, scrollTop, isLoadingMore, overflowAnchor,
                 jobs, loadMoreBatchSize, autoLoadMoreEnabled, autoLoadThresholdPx,
                 autoLoadCooldownMs, lastAutoLoadTs, touchStartY, now, powerUserSettings,
                 settings, hljs, hljsOriginal, hist>>

\* the callback of setTimeout(() => installTopIntentLoadMore(ctx), 500)
installTopIntentLoadMoreRetry ==
  /\ install.topIntentTimers > 0
  /\ install' = installTopIntentLoadMore([install EXCEPT !.topIntentTimers = @ - 1],
                                         chatPresent)
  /\ UNCHANGED <<dom, affordance, chatPresent, scrollTop, isLoadingMore, overflowAnchor,
                 jobs, loadMoreBatchSize, autoLoadMoreEnabled, autoLoadThresholdPx,
                 autoLoadCooldownMs, lastAutoLoadTs, autoLoadRafPending, evalCallbacks,
                 touchStartY, now, powerUserSettings, settings, hljs, hljsOriginal, hist>>

\* init() run again (APP_READY): the stored settings are normalised and applied
init ==
  \E s \in {ensureExtensionSettings(settings)} :
    /\ settings' = s
    /\ applyAll(s)

\* String(x) written into an input by refreshUI
Shown(value) == [kind |-> "numstr", twice |-> value.twice]

\* the settings onChange stores and applies
onChangeSettings(initial, batch, autoLoad, threshold, disableHl) ==
  [ensureExtensionSettings(settings) EXCEPT
     !.initialRenderCount =
        Num(clampInt(initial, 1, 1000, DEFAULT_SETTINGS.initialRenderCount)),
     !.loadMoreBatchSize =
        Num(clampInt(batch, 1, 500, DEFAULT_SETTINGS.loadMoreBatchSize)),
     !.autoLoadMore = autoLoad,
     !.disableCodeHighlight = disableHl,
     !.autoLoadThresholdPx =
        Num(clampInt(threshold, 0, 10000, DEFAULT_SETTINGS.autoLoadThresholdPx))]

\* onChange of renderCocktailSettings: initial, batch and threshold are the
\* value strings of the three number inputs, autoLoad and disableHl the
\* checkboxes; refreshUI normalises the stored settings once more
onChange(initial, batch, autoLoad, threshold, disableHl) ==
  \E s \in {onChangeSettings(initial, batch, autoLoad, threshold, disableHl)} :
    /\ applyAll(s)
    /\ settings' = ensureExtensionSettings(s)

\* the inputs of the panel when the user has edited one of them to value v:
\* the others hold what refreshUI wrote
EditedInputs(values) ==
  UNION {{[shown EXCEPT !.initial = v] : v \in values.initialRenderCount}
           \cup {[shown EXCEPT !.batch = v] : v \in values.loadMoreBatchSize}
           \cup {[shown EXCEPT !.threshold = v] : v \in values.autoLoadThresholdPx}
           \cup {[shown EXCEPT !.autoLoad = ~shown.autoLoad]}
           \cup {[shown EXCEPT !.disableHl = ~shown.disableHl] :
                   v \in values.disableCodeHighlight} :
         shown \in {[initial |-> Shown(s.initialRenderCount),
                     batch |-> Shown(s.loadMoreBatchSize),
                     autoLoad |-> s.autoLoadMore,
                     disableHl |-> s.disableCodeHighlight,
                     threshold |-> Shown(s.autoLoadThresholdPx)] :
                    s \in {ensureExtensionSettings(settings)}}}

\* the host replaces one numeric field of the stored settings (settings
\* imported or loaded again); nothing of the program runs
HostStores(k, value) ==
  /\ settings = ensureExtensionSettings(settings)
  /\ settings' = [settings EXCEPT ![k] = value]
  /\ UNCHANGED <<dom, affordance, chatPresent, install, hljs, hljsOriginal, scrollTop, isLoadingMore, overflowAnchor, jobs,
                 loadMoreBatchSize, autoLoadMoreEnabled, autoLoadThresholdPx,
                 autoLoadCooldownMs, lastAutoLoadTs, autoLoadRafPending, evalCallbacks, touchStartY,
                 now, powerUserSettings, hist>>

(* --------------------------- environment ------------------------------ *)
\* Date.now() advances
Tick ==
  /\ now < StartTime + MaxTime
  /\ now' = now + 1
  /\ UNCHANGED <<dom, affordance, chatPresent, install, hljs, hljsOriginal, scrollTop, isLoadingMore, overflowAnchor, jobs,
                 loadMoreBatchSize, autoLoadMoreEnabled, autoLoadThresholdPx,
                 autoLoadCooldownMs, lastAutoLoadTs, autoLoadRafPending, evalCallbacks, touchStartY,
                 powerUserSettings, settings, hist>>

\* the page finishes loading highlight.js
HljsLoaded ==
  /\ ~hljs.present
  /\ hljs' \in {lib \in HljsLibraries : lib.present}
  /\ UNCHANGED <<dom, affordance, chatPresent, install, hljsOriginal, scrollTop,
                 isLoadingMore, overflowAnchor, jobs, loadMoreBatchSize,
                 autoLoadMoreEnabled, autoLoadThresholdPx, autoLoadCooldownMs,
                 lastAutoLoadTs, autoLoadRafPending, evalCallbacks, touchStartY, now,
                 powerUserSettings, settings, hist>>

\* the host takes #chat out of the document, or puts it back; the program
\* looks the container up only in loadMoreChunked, after the busy test, so a
\* change made while a job is live is seen as made when the job has ended
ChatToggle ==
  /\ ~isLoadingMore
  /\ chatPresent' = ~chatPresent
  /\ UNCHANGED <<install, hljs, hljsOriginal, dom, affordance, scrollTop, isLoadingMore, overflowAnchor, jobs, loadMoreBatchSize,
                 autoLoadMoreEnabled, autoLoadThresholdPx, autoLoadCooldownMs,
                 lastAutoLoadTs, autoLoadRafPending, evalCallbacks, touchStartY, now,
                 powerUserSettings, settings, hist>>

\* the host renders the conversation again (reloadCurrentChat, or a switch to
\* a conversation of the same length): the children of #chat are replaced by
\* the last chat_truncation entries, the affordance is shown iff older
\* entries exist, and the container is scrolled to the bottom; the closure of
\* a live job and the module variables are not touched; the removals of the
\* affordance are counted per rendering
Reload ==
  /\ chatPresent
  /\ \E c \in {IF powerUserSettings.present /\ powerUserSettings.chat_truncation > 0
                  THEN Max(Total - powerUserSettings.chat_truncation, 0) ELSE 0} :
       /\ dom' = Range(c, Total - 1)
       /\ affordance' = (c > 0)
  /\ scrollTop' = MaxScroll
  /\ hist' = [hist EXCEPT
                 !.reloaded = @ \/ \E i \in DOMAIN jobs : jobs[i].pc = "raf" /\ jobs[i].frames > 0,
                 !.removeCalls = 0]
  /\ UNCHANGED <<chatPresent, install, hljs, hljsOriginal, isLoadingMore, overflowAnchor,
                 jobs, loadMoreBatchSize, autoLoadMoreEnabled, autoLoadThresholdPx,
                 autoLoadCooldownMs, lastAutoLoadTs, autoLoadRafPending, evalCallbacks,
                 touchStartY, now, powerUserSettings, settings>>

\* the user or the host sets power_user.auto_scroll_chat_to_bottom to v
HostSetsAutoScroll(v) ==
  /\ v \in {"true", "false"}
  /\ powerUserSettings.present
  /\ powerUserSettings' = [powerUserSettings EXCEPT !.auto_scroll_chat_to_bottom = v]
  /\ hist' = [hist EXCEPT !.hostAutoScroll = IF jobs # <<>> THEN v ELSE @]
  /\ UNCHANGED <<dom, affordance, chatPresent, install, hljs, hljsOriginal, scrollTop,
                 isLoadingMore, overflowAnchor, jobs, loadMoreBatchSize,
                 autoLoadMoreEnabled, autoLoadThresholdPx, autoLoadCooldownMs,
                 lastAutoLoadTs, autoLoadRafPending, evalCallbacks, touchStartY, now,
                 settings>>

(* ------------------------- specifications ----------------------------- *)
\* every install* has run with the container there: one handler or listener
\* set of each kind, no retry pending
Installed ==
  [loadMoreInstalled |-> TRUE, autoLoadInstalled |-> TRUE, topIntentInstalled |-> TRUE,
   clickHandlers |-> 1, scrollListeners |-> 1, topListeners |-> 1,
   autoLoadTimers |-> 0, topIntentTimers |-> 0]

\* nothing installed, no retry pending
NotInstalled ==
  [loadMoreInstalled |-> FALSE, autoLoadInstalled |-> FALSE, topIntentInstalled |-> FALSE,
   clickHandlers |-> 0, scrollListeners |-> 0, topListeners |-> 0,
   autoLoadTimers |-> 0, topIntentTimers |-> 0]

\* the state when the module has been evaluated and init() has not run: the
\* module variables hold their declared values, nothing is installed or
\* patched, the container and highlight.js may not be there yet; the host
\* holds stored settings and has rendered entries 3..Total-1
InitModule ==
  /\ dom = Range(3, Total - 1)
  /\ affordance = TRUE
  /\ \E b \in BatchSizes, e \in BOOLEAN, h \in BOOLEAN :
       settings = [initialRenderCount |-> Num(3), loadMoreBatchSize |-> Num(b),
                   disableCodeHighlight |-> h, autoLoadMore |-> e,
                   autoLoadThresholdPx |-> Num(1), autoLoadCooldownMs |-> Num(0)]
  /\ powerUserSettings = [present |-> TRUE, auto_scroll_chat_to_bottom |-> "true",
                          chat_truncation |-> 0]
  /\ chatPresent \in BOOLEAN
  /\ scrollTop = 0
  /\ isLoadingMore = FALSE
  /\ jobs = <<>>
  /\ loadMoreBatchSize = DEFAULT_SETTINGS.loadMoreBatchSize
  /\ autoLoadMoreEnabled = DEFAULT_SETTINGS.autoLoadMore
  /\ autoLoadThresholdPx = DEFAULT_SETTINGS.autoLoadThresholdPx
  /\ autoLoadCooldownMs = DEFAULT_SETTINGS.autoLoadCooldownMs
  /\ lastAutoLoadTs = 0
  /\ autoLoadRafPending = FALSE
  /\ evalCallbacks = 0
  /\ overflowAnchor = ""
  /\ touchStartY = Null
  /\ now = StartTime
  /\ install = NotInstalled
  /\ hljs \in HljsLibraries
  /\ hljsOriginal = <<>>
  /\ hist = [lastStartAny |-> Null, lastStartAuto |-> Null,
             removeCalls |-> 0, abortedCursor |-> Null, notified |-> 0,
             lastAccept |-> Null, reloaded |-> FALSE, hostAutoScroll |-> "none",
             snapshots |-> 0, patched |-> <<>>]

\* the state after init(): the host has rendered the last Total - c entries and
\* shows the affordance iff older entries exist; the listeners are installed
\* and installAutoLoadScrollTrigger has run onScroll() once; the settings are
\* normalised and applied, highlight.js is loaded and patched (init runs on
\* DOM ready and again on APP_READY); pus is the set of values of ctx.powerUserSettings,
\* anchors the set of values of the container's style.overflowAnchor
InitBase(pus, anchors) ==
  /\ \E c \in 0..Total :
       /\ dom = Range(c, Total - 1)
       /\ affordance = (c > 0)
  /\ \E p \in pus, n \in InitialCounts, b \in BatchSizes, e \in BOOLEAN,
        t \in ThresholdValues, cd \in CooldownValues :
       /\ settings = [initialRenderCount |-> Num(n), loadMoreBatchSize |-> Num(b),
                      disableCodeHighlight |-> TRUE,
                      autoLoadMore |-> e, autoLoadThresholdPx |-> Num(t),
                      autoLoadCooldownMs |-> Num(cd)]
       /\ powerUserSettings = [p EXCEPT !.chat_truncation = IF p.present THEN n ELSE 0]
  /\ chatPresent = TRUE
  /\ scrollTop \in 0..MaxScroll
  /\ isLoadingMore = FALSE
  /\ jobs = <<>>
  /\ loadMoreBatchSize = IntOf(settings.loadMoreBatchSize)
  /\ autoLoadMoreEnabled = settings.autoLoadMore
  /\ autoLoadThresholdPx = IntOf(settings.autoLoadThresholdPx)
  /\ autoLoadCooldownMs = IntOf(settings.autoLoadCooldownMs)
  /\ lastAutoLoadTs = 0
  /\ autoLoadRafPending = autoLoadMoreEnabled
  /\ evalCallbacks = IF autoLoadMoreEnabled THEN 1 ELSE 0
  /\ overflowAnchor \in anchors
  /\ touchStartY = Null
  /\ now = StartTime
  /\ install = Installed
  /\ \E p \in {patchHljs([present |-> TRUE, fn |-> [f \in HljsFunctions |-> "original"]],
                          <<>>, settings.disableCodeHighlight)} :
       /\ hljs = p.hljs
       /\ hljsOriginal = p.hljsOriginal
  /\ hist = [lastStartAny |-> Null, lastStartAuto |-> Null,
             removeCalls |-> 0, abortedCursor |-> Null, notified |-> 0,
             lastAccept |-> Null, reloaded |-> FALSE, hostAutoScroll |-> "none",
             snapshots |-> 1, patched |-> <<"disable", "disable">>]

\* the container has no inline overflow-anchor style
InitWith(pus) == InitBase(pus, {""})

\* a host whose auto_scroll_chat_to_bottom is on
Init ==
  InitWith({[present |-> TRUE, auto_scroll_chat_to_bottom |-> "true", chat_truncation |-> 0]})

Next ==
  \/ Click
  \/ \E top \in 0..MaxScroll : onScroll(top)
  \/ maybeTrigger
  \/ \E deltaY \in WheelDeltas : onWheel(deltaY)
  \/ \E y \in TouchYs : onTouchStart(y)
  \/ \E y \in TouchYs : onTouchMove(y)
  \/ onTouchEnd
  \/ \E i \in DOMAIN jobs : step(i)
  \/ \E i \in DOMAIN jobs : emitDone(i)
  \/ Tick
  \/ ChatToggle

\* the host's insertion primitive never throws
Spec == Init /\ [][Next]_vars

NextFault ==
  \/ Next
  \/ \E i \in DOMAIN jobs : \E k \in 0..(PerFrame - 1) : stepThrows(i, k)

\* the host's insertion primitive may throw for any entry
SpecFault == Init /\ [][NextFault]_vars

\* the settings panel is used while jobs run; the clock stands still
NextPanel ==
  \/ Click
  \/ \E top \in 0..MaxScroll : onScroll(top)
  \/ maybeTrigger
  \/ \E deltaY \in WheelDeltas : onWheel(deltaY)
  \/ \E y \in TouchYs : onTouchStart(y)
  \/ \E y \in TouchYs : onTouchMove(y)
  \/ onTouchEnd
  \/ \E i \in DOMAIN jobs : step(i)
  \/ \E i \in DOMAIN jobs : emitDone(i)
  \/ ChatToggle
  \/ \E in \in EditedInputs(PanelValues) :
       onChange(in.initial, in.batch, in.autoLoad, in.threshold, in.disableHl)

\* the cooldown is switched off (the panel has no input for it)
InitPanel == Init /\ autoLoadCooldownMs = 0

SpecPanel == InitPanel /\ [][NextPanel]_vars

\* a window of initialRenderCount entries at rest, nothing scrolled
InitConfig == Init /\ Len(dom) = IntOf(settings.initialRenderCount) /\ scrollTop = 0

\* the settings alone: stored by the host, normalised by init, edited in the panel
NextConfig ==
  \/ init
  \/ \E in \in EditedInputs(RawInputs) :
       onChange(in.initial, in.batch, in.autoLoad, in.threshold, in.disableHl)
  \/ \E k \in NumericFields, value \in RawValues : HostStores(k, value)

SpecConfig == InitConfig /\ [][NextConfig]_vars

\* requestAnimationFrame runs every callback it was given (the page stays
\* visible), and an awaited emit settles: the frame steps and the
\* continuations of the jobs are taken when they can be; the clock stands
\* still and the cooldown is switched off
NextLive ==
  \/ Click
  \/ \E top \in 0..MaxScroll : onScroll(top)
  \/ maybeTrigger
  \/ \E deltaY \in WheelDeltas : onWheel(deltaY)
  \/ \E y \in TouchYs : onTouchStart(y)
  \/ \E y \in TouchYs : onTouchMove(y)
  \/ onTouchEnd
  \/ \E i \in DOMAIN jobs : step(i)
  \/ \E i \in DOMAIN jobs : emitDone(i)
  \/ ChatToggle

SpecLive ==
  /\ InitPanel
  /\ [][NextLive]_vars
  /\ WF_vars(\E i \in DOMAIN jobs : step(i))
  /\ WF_vars(\E i \in DOMAIN jobs : emitDone(i))

\* the user edits none of the number inputs
CheckboxOnly ==
  [initialRenderCount |-> {}, loadMoreBatchSize |-> {}, autoLoadThresholdPx |-> {},
   disableCodeHighlight |-> {}]

\* the proximity source alone, with the explicit control, the clock and the
\* autoLoadMore checkbox of the panel
NextGate ==
  \/ Click
  \/ \E top \in 0..MaxScroll : onScroll(top)
  \/ maybeTrigger
  \/ \E i \in DOMAIN jobs : step(i)
  \/ \E i \in DOMAIN jobs : emitDone(i)
  \/ Tick
  \/ ChatToggle
  \/ \E in \in EditedInputs(CheckboxOnly) :
       onChange(in.initial, in.batch, in.autoLoad, in.threshold, in.disableHl)

SpecGate == Init /\ [][NextGate]_vars

\* automatic preloading is switched off: the scroll listener registers no
\* evaluation, and jobs are started by the explicit control, the wheel and
\* the touch-drag only; the insertion primitive may throw
InitTop == Init /\ ~autoLoadMoreEnabled

NextTop ==
  \/ Click
  \/ \E top \in 0..MaxScroll : onScroll(top)
  \/ \E deltaY \in WheelDeltas : onWheel(deltaY)
  \/ \E y \in TouchYs : onTouchStart(y)
  \/ \E y \in TouchYs : onTouchMove(y)
  \/ onTouchEnd
  \/ \E i \in DOMAIN jobs : step(i)
  \/ \E i \in DOMAIN jobs : emitDone(i)
  \/ \E i \in DOMAIN jobs : \E k \in 0..(PerFrame - 1) : stepThrows(i, k)
  \/ Tick
  \/ ChatToggle

SpecTop == InitTop /\ [][NextTop]_vars

\* a container with any inline overflow-anchor value; automatic preloading
\* and the cooldown are switched off, jobs are started by the explicit
\* control and the wheel, the clock stands still
InitAnchor ==
  /\ InitBase({[present |-> TRUE, auto_scroll_chat_to_bottom |-> "true",
                chat_truncation |-> 0]}, AnchorValues)
  /\ ~autoLoadMoreEnabled
  /\ autoLoadCooldownMs = 0

NextAnchor ==
  \/ Click
  \/ \E top \in 0..MaxScroll : onScroll(top)
  \/ \E deltaY \in WheelDeltas : onWheel(deltaY)
  \/ \E i \in DOMAIN jobs : step(i)
  \/ \E i \in DOMAIN jobs : emitDone(i)
  \/ \E i \in DOMAIN jobs : \E k \in 0..(PerFrame - 1) : stepThrows(i, k)
  \/ ChatToggle

SpecAnchor == InitAnchor /\ [][NextAnchor]_vars

\* the host acts while jobs run: it renders the conversation again and its
\* auto-scroll setting is changed; jobs are started by the explicit control
\* and the wheel, the clock stands still
NextHost ==
  \/ Click
  \/ \E top \in 0..MaxScroll : onScroll(top)
  \/ \E deltaY \in WheelDeltas : onWheel(deltaY)
  \/ \E i \in DOMAIN jobs : step(i)
  \/ \E i \in DOMAIN jobs : emitDone(i)
  \/ Reload
  \/ \E v \in {"true", "false"} : HostSetsAutoScroll(v)

SpecHost == InitAnchor /\ [][NextHost]_vars

\* the user toggles one of the two checkboxes of the panel
Checkboxes ==
  [initialRenderCount |-> {}, loadMoreBatchSize |-> {}, autoLoadThresholdPx |-> {},
   disableCodeHighlight |-> {TRUE}]

\* fewer than MaxTimers retries of each install function are pending
TimersBelowMax ==
  install.autoLoadTimers < MaxTimers /\ install.topIntentTimers < MaxTimers

\* from the evaluation of the module on: init() runs any number of times, the
\* panel is used, the retries fire, the container and highlight.js come and
\* go; an event runs a handler when one is installed for it
NextInit ==
  \/ TimersBelowMax /\ init
  \/ /\ TimersBelowMax
     /\ \E in \in EditedInputs(Checkboxes) :
          onChange(in.initial, in.batch, in.autoLoad, in.threshold, in.disableHl)
  \/ installAutoLoadScrollTriggerRetry
  \/ installTopIntentLoadMoreRetry
  \/ ChatToggle
  \/ HljsLoaded
  \/ install.clickHandlers > 0 /\ Click
  \/ install.scrollListeners > 0 /\ \E top \in 0..MaxScroll : onScroll(top)
  \/ maybeTrigger
  \/ install.topListeners > 0 /\ \E deltaY \in WheelDeltas : onWheel(deltaY)
  \/ \E i \in DOMAIN jobs : step(i)
  \/ \E i \in DOMAIN jobs : emitDone(i)

SpecInit == InitModule /\ [][NextInit]_vars

(* ============================== claims ================================ *)
\* a trigger attempt of any source: explicit click, scroll proximity, wheel, touch
TriggerAttempt ==
  \/ Click
  \/ maybeTrigger
  \/ \E deltaY \in WheelDeltas : onWheel(deltaY)
  \/ \E y \in TouchYs : onTouchMove(y)

\* a step in which a source other than the explicit control starts a job
AutoStart == Len(jobs') = Len(jobs) + 1 /\ jobs'[Len(jobs')].src # "click"

\* C1 (single-flight): at most one job is live at any time, a live job holds
\* the busy flag, and a trigger attempt made while the flag is set changes
\* nothing a job reads or writes.
C1_SingleFlight ==
  /\ [](Len(jobs) <= 1 /\ (Len(jobs) = 1 => isLoadingMore))
  /\ [][(isLoadingMore /\ TriggerAttempt) => UNCHANGED jobVars]_vars

\* C1 witness: a job is between two frame steps while the affordance can be
\* clicked, a proximity evaluation is pending, the container is at offset 0
\* and a touch gesture is under way, so every source can make an attempt.
C1_Witness ==
  /\ isLoadingMore /\ Len(jobs) = 1 /\ jobs[1].pc = "raf" /\ jobs[1].inserted > 0
  /\ affordance /\ autoLoadRafPending /\ scrollTop = 0 /\ touchStartY # Null

\* C2 (contiguity): in every state the rendered ids are exactly
\* cursor, cursor+1, ..., Total-1 in this order, and the lower bound kept by a
\* live job is the window's lower bound.
C2_Contiguity ==
  /\ dom = Range(cursor, Total - 1)
  /\ \A i \in DOMAIN jobs : jobs[i].messageId = cursor

\* C2 witness: a job has taken a frame step and has more to insert.
C2_Witness ==
  \E i \in DOMAIN jobs :
    jobs[i].pc = "raf" /\ jobs[i].inserted > 0 /\ jobs[i].remaining > 0 /\ cursor > 0

\* C3 (transient entry error), as claimed: a job whose insertion primitive
\* threw for an id goes on (it is still scheduled or has finished) and its
\* lower bound has moved past the failing id.
C3_SkipAndContinue ==
  \A i \in DOMAIN jobs :
    jobs[i].failedId # Null =>
      jobs[i].pc \in {"raf", "emit"} /\ jobs[i].messageId <= jobs[i].failedId

C5_IdempotentExhaustion ==
  /\ []((cursor = 0 => ~affordance) /\ hist.removeCalls <= 1
          /\ (hist.removeCalls = 1 => cursor = 0))
  /\ [][(cursor > 0 /\ cursor' = 0) => hist'.removeCalls = hist.removeCalls + 1]_vars
  /\ [][(cursor = 0 /\ TriggerAttempt) => UNCHANGED jobVars]_vars

\* C5 witness: backfill has exhausted the log, the job is over, and a
\* proximity evaluation is pending and a touch gesture under way at offset 0.
C5_Witness ==
  /\ cursor = 0 /\ hist.removeCalls = 1 /\ ~isLoadingMore /\ jobs = <<>>
  /\ autoLoadRafPending /\ scrollTop = 0 /\ touchStartY # Null

\* C6 (scroll invariant), as claimed: every step that inserts entries raises
\* the scroll offset by the growth of the content height.
C6_ScrollInvariant ==
  [][dom' # dom => scrollTop' - scrollTop = ScrollHeight(dom') - ScrollHeight(dom)]_vars

\* C7 (batch clamping): a job started at lower bound c with batch size b never
\* inserts more than min(b, c) entries, the ids it has inserted are c-1, c-2, ...
\* and when it completes it has inserted exactly min(b, c), cursor is
\* c - min(b, c), and the affordance is gone iff cursor is 0.
C7_BatchClamping ==
  \A i \in DOMAIN jobs :
    LET j == jobs[i]
        m == Min(j.batchSize, j.startId)
    IN /\ j.startId > 0
       /\ j.inserted <= m
       /\ j.ids = [k \in 1..j.inserted |-> j.startId - k]
       /\ j.pc = "emit" => /\ j.inserted = m
                           /\ cursor = j.startId - m
                           /\ affordance = (cursor > 0)

\* C7 witness: a job with batch size above its lower bound has completed
\* with the log exhausted.
C7_Witness ==
  \E i \in DOMAIN jobs :
    /\ jobs[i].pc = "emit" /\ jobs[i].batchSize > jobs[i].startId
    /\ jobs[i].inserted = jobs[i].startId /\ cursor = 0 /\ ~affordance

\* C8 (insertion order): the first id a job inserts is its start lower bound
\* minus one, each later id is the previous one minus one, and the ids sit at
\* the top of the container with the latest inserted first.
C8_InsertionOrder ==
  \A i \in DOMAIN jobs :
    LET ids == jobs[i].ids
        n == Len(ids)
    IN /\ n > 0 => ids[1] = jobs[i].startId - 1
       /\ \A k \in 2..n : ids[k] = ids[k - 1] - 1
       /\ n <= Len(dom)
       /\ \A k \in 1..n : dom[k] = ids[n - k + 1]

\* C8 witness: a job has inserted entries in more than one frame step.
C8_Witness ==
  \E i \in DOMAIN jobs : Len(jobs[i].ids) > PerFrame

\* C9 (start with cursor 0): no job is ever started from lower bound 0, and a
\* trigger attempt of any source made with cursor 0 and no job live leaves the
\* flag clear and changes nothing a job reads or writes.
C9_NoStartAtZero ==
  /\ [](\A i \in DOMAIN jobs : jobs[i].startId > 0)
  /\ [][(cursor = 0 /\ ~isLoadingMore /\ TriggerAttempt)
          => (~isLoadingMore' /\ jobs' = <<>> /\ UNCHANGED jobVars
              /\ hist'.lastStartAny = hist.lastStartAny)]_vars

\* C9 witness: the log was fully rendered from the start (nothing was ever
\* backfilled), no job is live, and a proximity evaluation is pending and a
\* touch gesture under way at offset 0.
C9_Witness ==
  /\ cursor = 0 /\ hist.removeCalls = 0 /\ ~isLoadingMore /\ jobs = <<>>
  /\ hist.lastStartAny = Null
  /\ autoLoadRafPending /\ scrollTop = 0 /\ touchStartY # Null

\* C10 (container-missing abort): a trigger attempt made while the container
\* cannot be located leaves the flag clear, the rendered entries and cursor
\* unchanged and no job behind; cursor stays what it was at the abort, and the
\* next job that starts takes that cursor as its lower bound.
C10_ContainerMissingAbort ==
  /\ [](/\ hist.abortedCursor # Null => (cursor = hist.abortedCursor /\ ~isLoadingMore)
        /\ \A i \in DOMAIN jobs :
             jobs[i].retryOf # Null => jobs[i].startId = jobs[i].retryOf)
  /\ [][(~chatPresent /\ ~isLoadingMore /\ TriggerAttempt)
          => (~isLoadingMore' /\ jobs' = jobs /\ dom' = dom
              /\ affordance' = affordance /\ scrollTop' = scrollTop)]_vars

\* C10 witness: a job is running that was started by the first trigger after
\* an aborted start.
C10_Witness ==
  \E i \in DOMAIN jobs : jobs[i].retryOf # Null /\ jobs[i].inserted > 0

\* C11 (scoped auto-scroll suppression), as claimed: while a job is live the
\* host's auto-scroll setting (when it is a boolean) is off; a job that has
\* ended through a failure of the insertion primitive has left the setting at
\* the value captured at its start; the step that ends a job by completion
\* sets the captured value back, and an aborted start leaves the setting as
\* it was.
C11_AutoScrollScoped ==
  /\ [](\A i \in DOMAIN jobs :
          jobs[i].prevAutoScroll # "undefined" =>
            /\ jobs[i].pc \in {"raf", "emit"}
                  => powerUserSettings.auto_scroll_chat_to_bottom = "false"
            /\ jobs[i].pc = "threw"
                  => powerUserSettings.auto_scroll_chat_to_bottom = jobs[i].prevAutoScroll)
  /\ [][\A i \in DOMAIN jobs :
          (emitDone(i) /\ jobs[i].prevAutoScroll # "undefined")
            => powerUserSettings'.auto_scroll_chat_to_bottom = jobs[i].prevAutoScroll]_vars
  /\ [][(~chatPresent /\ TriggerAttempt) => UNCHANGED powerUserSettings]_vars

\* C12 (explicit control ignores the cooldown): whenever the busy flag is
\* free, the container present and cursor > 0, an explicit click can be made
\* and starts a job, whatever lastAutoLoadTs holds; the job starts from the
\* current cursor and the click leaves lastAutoLoadTs unchanged.
C12_ClickIgnoresCooldown ==
  /\ []((~isLoadingMore /\ chatPresent /\ cursor > 0)
          => ENABLED (Click /\ Len(jobs') = Len(jobs) + 1))
  /\ [][(Click /\ ~isLoadingMore /\ chatPresent /\ cursor > 0)
       => /\ isLoadingMore'
          /\ Len(jobs') = Len(jobs) + 1
          /\ jobs'[Len(jobs')].src = "click"
          /\ jobs'[Len(jobs')].startId = cursor
          /\ lastAutoLoadTs' = lastAutoLoadTs]_vars

\* C12 witness: a job started by an explicit click is live while the
\* cooldown set by an earlier non-explicit trigger has not elapsed.
C12_Witness ==
  /\ Len(jobs) = 1 /\ jobs[1].src = "click" /\ jobs[1].pc = "raf"
  /\ hist.lastStartAuto # Null /\ hist.lastStartAny = now
  /\ autoLoadCooldownMs > 0 /\ now - lastAutoLoadTs < autoLoadCooldownMs

\* C15 (a failure never corrupts the window): after a job hit an insertion
\* failure, and after an aborted start, the rendered ids are the contiguous
\* range from cursor to Total-1, and the failed job's own lower bound is
\* cursor, the lowest id it (or the host) rendered: its start bound minus the
\* number of entries it inserted.
C15_FailureKeepsWindow ==
  /\ \A i \in DOMAIN jobs :
       jobs[i].pc = "threw" =>
         /\ Len(dom) = Total - cursor
         /\ \A k \in 1..Len(dom) : dom[k] = cursor + k - 1
         /\ jobs[i].messageId = cursor
         /\ cursor = jobs[i].startId - jobs[i].inserted
         /\ jobs[i].failedId = cursor - 1
  /\ hist.abortedCursor # Null =>
       /\ Len(dom) = Total - hist.abortedCursor
       /\ \A k \in 1..Len(dom) : dom[k] = hist.abortedCursor + k - 1

\* C15 witness: the insertion primitive threw after the job had inserted
\* entries in an earlier frame step.
C15_Witness ==
  \E i \in DOMAIN jobs :
    jobs[i].pc = "threw" /\ jobs[i].inserted >= PerFrame /\ jobs[i].failedId >= 0

\* C18 (affordance removal): the affordance is present whenever an entry below
\* cursor is left, and a step that removes it is a frame step that completes a
\* job with cursor 0.
C18_RemovedOnlyWhenExhausted ==
  /\ [](cursor > 0 => affordance)
  /\ [][(affordance /\ ~affordance')
          => /\ cursor' = 0
             /\ \E i \in DOMAIN jobs :
                  jobs[i].pc = "raf" /\ jobs'[i].pc = "emit" /\ jobs'[i].messageId = 0]_vars

\* C18 witness: a job has completed with older entries left and the
\* affordance still there.
C18_Witness ==
  \E i \in DOMAIN jobs :
    jobs[i].pc = "emit" /\ jobs[i].inserted > 0 /\ cursor > 0 /\ affordance

\* C20 (frame bound): no step adds more than PerFrame entries, a live job has
\* inserted at most PerFrame entries per frame step taken, and a job that
\* completes after inserting k entries has taken exactly ceil(k / PerFrame)
\* frame steps.
C20_FrameBound ==
  /\ [](\A i \in DOMAIN jobs :
          /\ jobs[i].inserted <= PerFrame * jobs[i].frames
          /\ jobs[i].pc = "emit"
                => PerFrame * (jobs[i].frames - 1) < jobs[i].inserted)
  /\ [][Len(dom') - Len(dom) <= PerFrame]_vars

\* C20 witness: a job has completed in two frame steps, the first of
\* PerFrame entries.
C20_Witness ==
  \E i \in DOMAIN jobs :
    jobs[i].pc = "emit" /\ jobs[i].frames = 2 /\ jobs[i].inserted = PerFrame + 1

\* a step that starts a job
JobStart == Len(jobs') = Len(jobs) + 1

\* C13 (feature disabled at runtime), as claimed: with autoLoadMore off, a
\* job is started by the explicit click only, by none of scroll proximity,
\* wheel and touch-drag.
C13_NoAutoStartWhenDisabled ==
  [][(~autoLoadMoreEnabled /\ JobStart) => jobs'[Len(jobs')].src = "click"]_vars

\* C13, amended: with autoLoadMore off, no job is started by scroll
\* proximity, and a proximity evaluation that was pending when the flag went
\* off changes nothing a job reads or writes.
C13_NoProximityStartWhenDisabled ==
  /\ [][(~autoLoadMoreEnabled /\ JobStart) => jobs'[Len(jobs')].src # "scroll"]_vars
  /\ [][(~autoLoadMoreEnabled /\ maybeTrigger) => UNCHANGED jobVars]_vars

\* C13 witness: autoLoadMore was switched off in the panel while a proximity
\* evaluation was pending, and but for the flag the evaluation would start a job.
C13_Witness ==
  /\ ~autoLoadMoreEnabled /\ autoLoadRafPending
  /\ ~isLoadingMore /\ affordance /\ chatPresent
  /\ scrollTop <= autoLoadThresholdPx /\ ~cooldownActive

\* the jobs are what they were, the observation mark apart
JobsKept ==
  /\ Len(jobs') = Len(jobs)
  /\ \A i \in DOMAIN jobs :
       [jobs'[i] EXCEPT !.disabledDuring = FALSE] = [jobs[i] EXCEPT !.disabledDuring = FALSE]

\* C14 (disabling does not cancel): the step that switches autoLoadMore off
\* leaves the flag, the rendered entries and the job as they are; a job that
\* was live at that step stays scheduled, each of its later frame steps
\* inserts min(PerFrame, remaining, cursor) entries, the ids it inserts are
\* startId-1, startId-2, ... and it completes with min(batchSize, startId)
\* entries inserted and cursor lowered by as many, as a job does that is not
\* disturbed.
C14_DisableKeepsJob ==
  /\ [](\A i \in DOMAIN jobs :
          jobs[i].disabledDuring =>
            /\ jobs[i].pc \in {"raf", "emit"}
            /\ jobs[i].ids = [k \in 1..jobs[i].inserted |-> jobs[i].startId - k]
            /\ jobs[i].messageId = cursor
            /\ jobs[i].pc = "emit"
                  => /\ jobs[i].inserted = Min(jobs[i].batchSize, jobs[i].startId)
                     /\ cursor = jobs[i].startId - jobs[i].inserted)
  /\ [][(autoLoadMoreEnabled /\ ~autoLoadMoreEnabled')
          => /\ JobsKept
             /\ UNCHANGED <<isLoadingMore, dom, affordance, scrollTop>>]_vars
  /\ [][\A i \in DOMAIN jobs :
          (jobs[i].disabledDuring /\ step(i))
            => jobs'[i].inserted - jobs[i].inserted
                 = Min(PerFrame, Min(jobs[i].remaining, jobs[i].messageId))]_vars

\* C14 witness: a job that was between its first and second frame step
\* when autoLoadMore went off has completed.
C14_Witness ==
  /\ ~autoLoadMoreEnabled
  /\ \E i \in DOMAIN jobs :
       jobs[i].disabledDuring /\ jobs[i].pc = "emit" /\ jobs[i].frames > 1

\* C16 (retry after a failure), as claimed, in the form a finite run refutes:
\* after an aborted start the busy flag is free, and the flag is never held
\* without a callback of the job left to run (a frame step or the
\* continuation that releases the flag), so a job that failed cannot keep it.
C16_FlagFreedAfterFailure ==
  /\ hist.abortedCursor # Null => ~isLoadingMore
  /\ isLoadingMore => \E i \in DOMAIN jobs : jobs[i].pc \in {"raf", "emit"}

\* the documented range and default of each numeric setting
SettingRange ==
  [initialRenderCount |-> [min |-> 1, max |-> 1000, default |-> 20],
   loadMoreBatchSize |-> [min |-> 1, max |-> 500, default |-> 20],
   autoLoadThresholdPx |-> [min |-> 0, max |-> 10000, default |-> 400],
   autoLoadCooldownMs |-> [min |-> 0, max |-> 10000, default |-> 250]]

\* the number twice/2 clamped to the range r, truncated toward zero inside it
ClampedTo(twice, r) ==
  IF twice < 2 * r.min THEN r.min
  ELSE IF twice > 2 * r.max THEN r.max
  ELSE IF twice >= 0 THEN twice \div 2 ELSE -((-twice) \div 2)

\* what C17 says a value is stored as: numbers (and strings spelling numbers)
\* are clamped, everything else becomes the default
StoredAsClaimed(value, r) ==
  IF value.kind \in {"number", "numstr"} THEN ClampedTo(value.twice, r) ELSE r.default

\* the settings of the program are integers inside their ranges
AppliedInRange ==
  /\ loadMoreBatchSize \in 1..500
  /\ autoLoadThresholdPx \in 0..10000
  /\ autoLoadCooldownMs \in 0..10000
  /\ powerUserSettings.present => powerUserSettings.chat_truncation \in 1..1000

\* C17 (configuration clamping), as claimed: whatever the stored settings
\* hold, init stores every numeric setting as the claim says, and whatever the
\* user has typed into an input of the panel, onChange stores it as the claim
\* says; what they store is an integer inside the range, normalising it again
\* changes nothing, and the settings the program works with are inside
\* their ranges.
C17_ClampingAsClaimed ==
  /\ AppliedInRange
  /\ \A s \in {ensureExtensionSettings(settings)} :
       /\ \A k \in NumericFields :
            /\ s[k] = Num(StoredAsClaimed(settings[k], SettingRange[k]))
            /\ IntOf(s[k]) \in SettingRange[k].min..SettingRange[k].max
       /\ ensureExtensionSettings(s) = s
  /\ \A in \in EditedInputs(RawInputs) :
       \A s \in {onChangeSettings(in.initial, in.batch, in.autoLoad, in.threshold, in.disableHl)} :
         /\ s.initialRenderCount
              = Num(StoredAsClaimed(in.initial, SettingRange.initialRenderCount))
         /\ s.loadMoreBatchSize
              = Num(StoredAsClaimed(in.batch, SettingRange.loadMoreBatchSize))
         /\ s.autoLoadThresholdPx
              = Num(StoredAsClaimed(in.threshold, SettingRange.autoLoadThresholdPx))
         /\ ensureExtensionSettings(s) = s

\* a step that applies settings: only onChange and init write the stored
\* settings and the host's truncation setting
SettingsApplied ==
  \/ settings' # settings
  \/ powerUserSettings'.chat_truncation # powerUserSettings.chat_truncation

\* C19 (applying the initial window size): the host's truncation setting is
\* the initial window size of the settings, inside 1..1000; a step that
\* applies settings leaves the rendered entries, cursor, the scroll offset,
\* the busy flag, the jobs and the host's auto-scroll setting as they are;
\* and a step that leaves the initial window size of the settings as it was
\* (the same value applied again) leaves the truncation setting as it was.
C19_TruncationOnly ==
  /\ [](powerUserSettings.present
          => /\ powerUserSettings.chat_truncation \in 1..1000
             /\ powerUserSettings.chat_truncation = IntOf(settings.initialRenderCount))
  /\ [][SettingsApplied
          => /\ JobsKept
             /\ UNCHANGED <<dom, affordance, scrollTop, isLoadingMore, lastAutoLoadTs>>
             /\ powerUserSettings'.auto_scroll_chat_to_bottom
                  = powerUserSettings.auto_scroll_chat_to_bottom]_vars
  /\ [][settings'.initialRenderCount = settings.initialRenderCount
          => powerUserSettings'.chat_truncation = powerUserSettings.chat_truncation]_vars

\* C19 witness: the initial window size was raised to its upper bound in the
\* panel while a job was between two frame steps.
C19_Witness ==
  /\ powerUserSettings.chat_truncation = 1000
  /\ \E i \in DOMAIN jobs :
       jobs[i].pc = "raf" /\ jobs[i].inserted > 0 /\ jobs[i].remaining > 0 /\ cursor > 0

\* C21 (termination): with the frame callbacks and the continuations run
\* whenever they are due and an insertion primitive that does not throw, a
\* busy flag that is set is eventually free again and a live job eventually
\* is gone; every frame step inserts at least one entry, so a job takes no
\* more frame steps than the min(batchSize, startId) entries it has to insert.
C21_Termination ==
  /\ [](\A i \in DOMAIN jobs :
          /\ jobs[i].frames <= jobs[i].inserted
          /\ jobs[i].inserted <= Min(jobs[i].batchSize, jobs[i].startId))
  /\ (isLoadingMore ~> ~isLoadingMore)
  /\ (jobs # <<>> ~> jobs = <<>>)

\* C21 witness: a job that took two frame steps has ended, the flag is free.
C21_Witness ==
  /\ ~isLoadingMore /\ jobs = <<>>
  /\ hist.lastStartAny # Null /\ hist.abortedCursor = Null /\ hist.notified = 1
  /\ Total - cursor > PerFrame

\* a handler of a non-explicit source runs: the proximity evaluation, a wheel
\* event or a touch move
NonExplicitHandler ==
  \/ maybeTrigger
  \/ \E deltaY \in WheelDeltas : onWheel(deltaY)
  \/ \E y \in TouchYs : onTouchMove(y)

\* C22 (the cooldown is shared): when a non-explicit trigger was accepted at
\* time t and less than cooldownMs have passed since, a handler of any
\* non-explicit source starts nothing, changes no job and leaves the
\* timestamp and the record of the last acceptance as they are, whether or
\* not the first job is still live.
C22_SharedCooldown ==
  [][(/\ hist.lastAccept # Null
      /\ autoLoadCooldownMs > 0
      /\ now - hist.lastAccept < autoLoadCooldownMs
      /\ NonExplicitHandler)
       => /\ UNCHANGED <<jobs, isLoadingMore, dom, lastAutoLoadTs>>
          /\ hist'.lastAccept = hist.lastAccept]_vars

\* C22 witness: the job a non-explicit trigger started has finished, the
\* cooldown has not elapsed, and all three sources are poised at offset 0: an
\* evaluation is pending and a touch gesture is under way.
C22_Witness ==
  /\ ~isLoadingMore /\ jobs = <<>> /\ affordance /\ scrollTop = 0 /\ chatPresent
  /\ hist.lastAccept # Null /\ hist.lastAccept = hist.lastStartAuto
  /\ autoLoadCooldownMs > 0 /\ now - hist.lastAccept < autoLoadCooldownMs
  /\ evalCallbacks = 1 /\ touchStartY = 0

ProximityEvaluation == evalCallbacks' = evalCallbacks - 1

\* the conditions C24 lists, at the time of the evaluation
ProximityConditions ==
  /\ autoLoadMoreEnabled
  /\ ~isLoadingMore
  /\ affordance
  /\ scrollTop <= autoLoadThresholdPx
  /\ ~(autoLoadCooldownMs > 0 /\ now - lastAutoLoadTs < autoLoadCooldownMs)

\* C24 (proximity gate): a job of source "scroll" is started only by a
\* proximity evaluation at which all the listed conditions hold; an
\* evaluation at which they hold sets the timestamp and, the container being
\* there, starts a job; an evaluation at which one of them fails changes
\* nothing a job reads or writes, the timestamp included.
C24_ProximityGate ==
  /\ [][(JobStart /\ jobs'[Len(jobs')].src = "scroll")
          => (ProximityEvaluation /\ ProximityConditions)]_vars
  /\ [][(ProximityEvaluation /\ ProximityConditions)
          => /\ lastAutoLoadTs' = now
             /\ chatPresent => (JobStart /\ jobs'[Len(jobs')].src = "scroll")]_vars
  /\ [][(ProximityEvaluation /\ ~ProximityConditions) => UNCHANGED jobVars]_vars

\* C24 witness: an evaluation is due with the feature on, the flag free, the
\* affordance there and the cooldown elapsed, and only the scroll offset
\* above the threshold stands against a start.
C24_Witness ==
  /\ evalCallbacks = 1 /\ autoLoadMoreEnabled /\ ~isLoadingMore /\ affordance
  /\ ~cooldownActive /\ hist.lastAccept # Null
  /\ scrollTop = autoLoadThresholdPx + 1

\* C25 (scroll coalescing): at most one evaluation callback is registered
\* and not yet run, and one is exactly when the pending flag is set; the
\* callback that runs clears the flag and leaves none registered; a scroll
\* event leaves one callback registered when the feature is on, however many
\* events came before it, so an event after the callback ran is evaluated.
C25_ScrollCoalescing ==
  /\ [](evalCallbacks \in {0, 1} /\ (autoLoadRafPending <=> evalCallbacks = 1))
  /\ [][ProximityEvaluation => (~autoLoadRafPending' /\ evalCallbacks' = 0)]_vars
  /\ [][((\E top \in 0..MaxScroll : onScroll(top)) /\ autoLoadMoreEnabled)
          => (autoLoadRafPending' /\ evalCallbacks' = 1)]_vars

\* C25 witness: an evaluation has run and started a job, and a scroll event
\* that came later, while the job is live, has registered the next one.
C25_Witness ==
  /\ evalCallbacks = 1 /\ autoLoadRafPending
  /\ \E i \in DOMAIN jobs : jobs[i].src = "scroll" /\ jobs[i].pc = "raf"

\* what C26 and C27 ask of the container and the gate besides the gesture:
\* offset 0, no job running, the affordance there, the cooldown elapsed
TopConditions ==
  /\ scrollTop = 0
  /\ ~isLoadingMore
  /\ affordance
  /\ ~(autoLoadCooldownMs > 0 /\ now - lastAutoLoadTs < autoLoadCooldownMs)

\* C26 (wheel gate): a wheel event with negative delta at which the
\* conditions hold sets the timestamp and, the container being there, starts
\* a job of source "wheel"; a wheel event with delta >= 0, or at an offset
\* above 0, or at which another condition fails, changes nothing a job reads
\* or writes, the timestamp included; a job of source "wheel" starts only
\* from a state in which the conditions hold.
C26_WheelGate ==
  /\ [][\A deltaY \in WheelDeltas :
          onWheel(deltaY) =>
            IF deltaY < 0 /\ TopConditions
              THEN /\ lastAutoLoadTs' = now
                   /\ chatPresent => (JobStart /\ jobs'[Len(jobs')].src = "wheel")
              ELSE UNCHANGED jobVars]_vars
  /\ [][(JobStart /\ jobs'[Len(jobs')].src = "wheel") => TopConditions]_vars

\* C26 witness: a job started by a wheel event at offset 0 is about to take
\* its first frame step.
C26_Witness ==
  /\ scrollTop = 0 /\ lastAutoLoadTs = now
  /\ \E i \in DOMAIN jobs :
       jobs[i].src = "wheel" /\ jobs[i].pc = "raf" /\ jobs[i].frames = 0

\* C27 (touch gate), as claimed: a touch move fires only when the pointer is
\* more than TouchDistance below the reference point of the gesture.
C27_TouchExceeds ==
  [][\A y \in TouchYs :
       (onTouchMove(y) /\ JobStart)
         => (touchStartY # Null /\ y - touchStartY > TouchDistance)]_vars

\* C27, amended: a touch move at TouchDistance or more below the reference
\* point at which the conditions hold sets the timestamp, makes the current
\* position the reference point and, the container being there, starts a job
\* of source "touch"; any other touch move changes nothing a job reads or
\* writes and leaves the reference point, so the next firing of the gesture
\* needs TouchDistance again from the new reference point.
C27_TouchAtLeast ==
  [][\A y \in TouchYs :
       onTouchMove(y) =>
         IF touchStartY # Null /\ y - touchStartY >= TouchDistance /\ TopConditions
           THEN /\ lastAutoLoadTs' = now
                /\ touchStartY' = y
                /\ chatPresent => (JobStart /\ jobs'[Len(jobs')].src = "touch")
           ELSE UNCHANGED <<jobVars, touchStartY>>]_vars

\* C27 witness: a job started by a touch move is about to take its first
\* frame step and the reference point is 18: the gesture began at 0 and
\* fired at a displacement of exactly TouchDistance.
C27_Witness ==
  /\ touchStartY = TouchDistance
  /\ \E i \in DOMAIN jobs :
       jobs[i].src = "touch" /\ jobs[i].pc = "raf" /\ jobs[i].frames = 0

\* C28 (scroll anchoring): while a job has frame steps to take, and until its
\* continuation has run, the container's overflow-anchor is "none"; the step
\* that starts a job captures the value the container had before it, the
\* step that ends a job by completion sets that value back, and a start
\* aborted for the missing container leaves the value as it was.
C28_AnchoringScoped ==
  /\ [](\A i \in DOMAIN jobs :
          jobs[i].pc \in {"raf", "emit"} => overflowAnchor = "none")
  /\ [][JobStart => jobs'[Len(jobs')].prevOverflowAnchor = overflowAnchor]_vars
  /\ [][(Len(jobs') < Len(jobs)) => overflowAnchor' = jobs[1].prevOverflowAnchor]_vars
  /\ [][(~chatPresent /\ TriggerAttempt) => overflowAnchor' = overflowAnchor]_vars
  /\ []((jobs = <<>> /\ overflowAnchor = "none") => ~isLoadingMore)

\* C28 witness: a job that took two frame steps has completed and the
\* container's overflow-anchor is "auto" again.
C28_Witness ==
  /\ jobs = <<>> /\ ~isLoadingMore /\ overflowAnchor = "auto"
  /\ hist.notified = 1 /\ Total - cursor > PerFrame

\* C29 (notification exactly once): a job that has frame steps to take, or
\* whose insertion threw, has emitted nothing; a completed job has emitted
\* MORE_MESSAGES_LOADED once, with all its min(batchSize, startId) entries
\* inserted and the busy flag still held; the count rises only in the frame
\* step that completes a job; the step that releases the flag emits nothing
\* more; and after a start aborted for the missing container nothing has
\* been emitted.
C29_NotifiedOnce ==
  /\ [](\A i \in DOMAIN jobs :
          /\ jobs[i].pc \in {"raf", "threw"} => hist.notified = 0
          /\ jobs[i].pc = "emit"
                => /\ hist.notified = 1
                   /\ isLoadingMore
                   /\ jobs[i].inserted = Min(jobs[i].batchSize, jobs[i].startId))
  /\ [](hist.abortedCursor # Null => hist.notified = 0)
  /\ [][hist'.notified > hist.notified
          => \E i \in DOMAIN jobs : jobs[i].pc = "raf" /\ jobs'[i].pc = "emit"]_vars
  /\ [][(isLoadingMore /\ ~isLoadingMore')
          => (hist.notified = 1 /\ hist'.notified = 1)]_vars

\* C29 witness: a job has emitted its notification after its second frame
\* step and still holds the flag.
C29_Witness ==
  /\ isLoadingMore /\ hist.notified = 1
  /\ \E i \in DOMAIN jobs : jobs[i].pc = "emit" /\ jobs[i].frames = 2

\* C30 (cursor is monotone and not negative): cursor is between 0 and the
\* length of the log in every state, and no step raises it.
C30_CursorMonotone ==
  /\ [](cursor >= 0 /\ cursor <= Total)
  /\ [][cursor' <= cursor]_vars

\* C30 witness: a job that had more to insert than the log held has lowered
\* cursor to 0 and stopped there.
C30_Witness ==
  /\ cursor = 0
  /\ \E i \in DOMAIN jobs :
       jobs[i].pc = "emit" /\ jobs[i].inserted < jobs[i].batchSize /\ jobs[i].startId > 0

\* C31 (teardown stops the job): once the host has rendered the conversation
\* again between two frame steps of a running job, that job takes no further
\* frame step.
C31_TeardownStopsJob ==
  [][hist.reloaded
       => \A i \in DOMAIN jobs :
            i \in DOMAIN jobs' => jobs'[i].frames = jobs[i].frames]_vars

\* C33 (auto-scroll change kept): when a job ends during which the host's
\* auto-scroll setting was changed, the setting holds the value of the
\* latest change.
C33_LatestChangeKept ==
  [][(Len(jobs') < Len(jobs) /\ hist.hostAutoScroll # "none")
       => powerUserSettings'.auto_scroll_chat_to_bottom = hist.hostAutoScroll]_vars

\* the ids materialized in the container
Rendered == {dom[k] : k \in DOMAIN dom}

\* C32 (no id materialized twice): no id is rendered twice; every id a live
\* job has passed to the insertion primitive without a throw is rendered and
\* no rendered id ever leaves the container, so the ids called so far are the
\* rendered ones and the id of a throwing call; every id a frame step passes
\* to the primitive, the throwing call included, is neither rendered nor the
\* id of an earlier throwing call; and a job whose call threw calls no more.
C32_MaterializedOnce ==
  /\ [](\A a, b \in DOMAIN dom : a # b => dom[a] # dom[b])
  /\ [](\A i \in DOMAIN jobs :
          /\ \A k \in DOMAIN jobs[i].ids : jobs[i].ids[k] \in Rendered
          /\ jobs[i].failedId # Null => jobs[i].failedId \notin Rendered)
  /\ [][\A id \in Rendered : id \in Rendered']_vars
  /\ [][\A i \in DOMAIN jobs :
          i \in DOMAIN jobs' /\ jobs'[i].frames > jobs[i].frames
            => /\ jobs[i].failedId = Null
               /\ \A k \in (Len(jobs[i].ids) + 1)..Len(jobs'[i].ids) :
                    /\ jobs'[i].ids[k] \notin Rendered
                    /\ \A l \in DOMAIN jobs'[i].ids : l # k => jobs'[i].ids[l] # jobs'[i].ids[k]
               /\ jobs'[i].failedId # Null
                    => /\ jobs'[i].failedId \notin Rendered
                       /\ \A l \in DOMAIN jobs'[i].ids : jobs'[i].ids[l] # jobs'[i].failedId]_vars

\* C32 witness: after a job started by the wheel, a job started by the
\* explicit control has inserted two entries below the ones that job left.
C32_Witness ==
  /\ hist.lastStartAuto # Null
  /\ \E i \in DOMAIN jobs :
       /\ jobs[i].src = "click" /\ jobs[i].pc = "emit" /\ Len(jobs[i].ids) = 2
       /\ Len(dom) > 2

\* C34 (batch size captured at start): a job starts with the batch size
\* applied at that moment as its count to insert; a step that changes the
\* applied batch size changes no job and no rendered entry; what a job has
\* inserted and what it has left always add up to the size it started with;
\* and it completes with min(that size, startId) entries inserted and cursor
\* lowered by as many.
C34_BatchCapturedAtStart ==
  /\ [][JobStart
          => \E b \in {clampInt(Num(loadMoreBatchSize), 1, 500,
                                 DEFAULT_SETTINGS.loadMoreBatchSize)} :
               /\ jobs'[Len(jobs')].batchSize = b
               /\ jobs'[Len(jobs')].remaining = b]_vars
  /\ [][loadMoreBatchSize' # loadMoreBatchSize
          => /\ Len(jobs') = Len(jobs)
             /\ \A i \in DOMAIN jobs :
                  /\ jobs'[i].remaining = jobs[i].remaining
                  /\ jobs'[i].batchSize = jobs[i].batchSize
                  /\ jobs'[i].messageId = jobs[i].messageId
             /\ UNCHANGED <<dom, isLoadingMore>>]_vars
  /\ [](\A i \in DOMAIN jobs :
          /\ jobs[i].inserted + jobs[i].remaining = jobs[i].batchSize
          /\ jobs[i].pc = "emit"
                => /\ jobs[i].inserted = Min(jobs[i].batchSize, jobs[i].startId)
                   /\ cursor = jobs[i].startId - jobs[i].inserted)

\* C34 witness: a job started with batch size 4 has completed in two frame
\* steps with four entries inserted although the batch size was set to 2
\* while it ran.
C34_Witness ==
  /\ loadMoreBatchSize = 2
  /\ \E i \in DOMAIN jobs :
       /\ jobs[i].pc = "emit" /\ jobs[i].frames = 2
       /\ jobs[i].batchSize = 4 /\ jobs[i].inserted = 4

\* C35 (install once): at most one explicit-click handler, one scroll
\* listener and one set of wheel and touch listeners is installed, so that
\* an event runs at most one handler of its source; each is there exactly
\* when its installed flag is set; and once a source is installed no init(),
\* panel change or retry adds or removes a listener of it.
C35_InstallOnce ==
  /\ [](/\ install.clickHandlers = (IF install.loadMoreInstalled THEN 1 ELSE 0)
        /\ install.scrollListeners = (IF install.autoLoadInstalled THEN 1 ELSE 0)
        /\ install.topListeners = (IF install.topIntentInstalled THEN 1 ELSE 0))
  /\ [][/\ install.loadMoreInstalled
            => install'.loadMoreInstalled /\ install'.clickHandlers = 1
        /\ install.autoLoadInstalled
            => install'.autoLoadInstalled /\ install'.scrollListeners = 1
        /\ install.topIntentInstalled
            => install'.topIntentInstalled /\ install'.topListeners = 1]_vars

\* C35 witness: applyAll ran twice while the container was missing; the
\* container appeared and one retry of each install function installed its
\* listeners, the other retries are still pending.
C35_Witness ==
  /\ install.autoLoadInstalled /\ install.topIntentInstalled
  /\ install.scrollListeners = 1 /\ install.topListeners = 1
  /\ install.autoLoadTimers > 0 /\ install.topIntentTimers > 0

\* C37 (highlight suppression round trip): the snapshot is taken once, by the
\* first call that finds highlight.js, and never changes afterwards; it holds
\* the library's own function for every function the library has, never a
\* no-op; after a call that disables, every function the library has is a
\* no-op; after a call that enables, every one is the library's own.
C37_HighlightRoundTrip ==
  /\ [](/\ hist.snapshots = (IF hljsOriginal = <<>> THEN 0 ELSE 1)
        /\ (hljsOriginal = <<>>) = (hist.patched = <<>>))
  /\ [](hljsOriginal # <<>>
          => \A f \in HljsFunctions :
               hljsOriginal[1][f] = (IF hljs.fn[f] = "undefined" THEN "null" ELSE "original"))
  /\ [][hljsOriginal # <<>> => hljsOriginal' = hljsOriginal]_vars
  /\ [](hist.patched # <<>>
          => \A f \in HljsFunctions :
               hljs.fn[f] \in {"undefined",
                               IF hist.patched[Len(hist.patched)] = "disable"
                                 THEN "noop" ELSE "original"})
  /\ [](hist.patched = <<>>
          => \A f \in HljsFunctions : hljs.fn[f] \in {"undefined", "original"})

\* C37 witness: highlighting was disabled twice in a row with highlightBlock
\* missing from the library; the snapshot holds the two original functions
\* and both are no-ops.
C37_Witness ==
  /\ hist.patched = <<"disable", "disable">>
  /\ hist.snapshots = 1
  /\ hljs.fn = [f \in HljsFunctions |->
                  IF f = "highlightBlock" THEN "undefined" ELSE "noop"]
  /\ hljsOriginal # <<>>

\* C36 (timestamp only on a start): lastAutoLoadTs changes only in a step
\* that starts a job.
C36_TimestampOnlyOnStart ==
  [][lastAutoLoadTs' # lastAutoLoadTs => JobStart]_vars

\* C38 (touch-move inside a gesture): touchend and touchcancel clear the
\* reference point; a job is started by a touch-move only from a state with
\* a reference point, which only touchstart sets from null; and a
\* touch-move that canTrigger rejects, or that is too short, leaves the
\* reference point unchanged.
C38_TouchGesture ==
  /\ [][onTouchEnd => touchStartY' = Null]_vars
  /\ [][(JobStart /\ jobs'[Len(jobs')].src = "touch") => touchStartY # Null]_vars
  /\ [][(touchStartY = Null /\ touchStartY' # Null)
          => (UNCHANGED jobVars /\ \E y \in TouchYs : onTouchStart(y))]_vars
  /\ [][((\E y \in TouchYs : onTouchMove(y)) /\ canTrigger # "pass")
          => UNCHANGED <<touchStartY, jobs, isLoadingMore, lastAutoLoadTs>>]_vars
  /\ [][(touchStartY = Null /\ \E y \in TouchYs : onTouchMove(y))
          => UNCHANGED <<touchStartY, jobs, isLoadingMore, lastAutoLoadTs>>]_vars

\* C38 witness: a touch-drag started a job, the job has ended, the finger
\* was lifted, and the container is at the top with the affordance there
\* and no cooldown active, so that only the missing reference point keeps a
\* touch-move from starting the next job.
C38_Witness ==
  /\ touchStartY = Null
  /\ hist.lastStartAuto # Null /\ lastAutoLoadTs = hist.lastStartAuto
  /\ jobs = <<>> /\ ~isLoadingMore /\ chatPresent
  /\ canTrigger = "pass"

\* C39 (start from an empty window): a job that starts with no entry
\* rendered takes the length of the log as its start id; after each of its
\* frame steps the container holds exactly the ids from the job's cursor up
\* to Total-1 in increasing order, the ids passed to the insertion primitive
\* being Total-1, Total-2, ...; and it completes with
\* [Total - min(batchSize, Total), Total-1] rendered.
C39_EmptyWindowStart ==
  /\ [][(JobStart /\ dom = <<>>) => jobs'[Len(jobs')].startId = Total]_vars
  /\ [](\A i \in DOMAIN jobs :
          jobs[i].startId = Total
            => /\ jobs[i].ids = [k \in 1..jobs[i].inserted |-> Total - k]
               /\ dom = Range(jobs[i].messageId, Total - 1)
               /\ jobs[i].pc = "emit"
                    => dom = Range(Total - Min(jobs[i].batchSize, Total), Total - 1))

\* C39 witness: a job that found the window empty has completed in two frame
\* steps and the last four entries of the log are rendered.
C39_Witness ==
  \E i \in DOMAIN jobs :
    /\ jobs[i].startId = Total /\ jobs[i].pc = "emit" /\ jobs[i].frames = 2
    /\ dom = Range(Total - 4, Total - 1)

====
